---------------------------- MODULE Spec2Model ----------------------------
(***************************************************************************)
(* Model of the compressed animation track codec of ssbh_data              *)
(* (anim_data/buffers.rs, anim_data/compression.rs) together with the      *)
(* little-endian primitives of ssbh_write.                                 *)
(*                                                                         *)
(* f32 values are IEEE-754 binary32 bit patterns [s, e, f] (sign, biased   *)
(* exponent, fraction); the arithmetic operators below round to nearest,   *)
(* ties to even, as the hardware does, using only integers below 2^31.     *)
(***************************************************************************)
EXTENDS Integers, Sequences, FiniteSets, TLC

(***************************************************************************)
(* IEEE-754 binary32                                                       *)
(***************************************************************************)
F32(s, e, f) == [s |-> s, e |-> e, f |-> f]

FZero == F32(0, 0, 0)

FNaN == F32(0, 255, 4194304)

FInf(s) == F32(s, 255, 0)

IsNaN(x) == x.e = 255 /\ x.f # 0

IsInf(x) == x.e = 255 /\ x.f = 0

IsZero(x) == x.e = 0 /\ x.f = 0

FNeg(x) == F32(1 - x.s, x.e, x.f)

is_sign_negative(x) == x.s = 1

MaxOf(a, b) == IF a >= b THEN a ELSE b

\* Number of significant bits of a natural number below 2^31.
RECURSIVE BitLen(_)
BitLen(n) ==
    IF n = 0 THEN 0
    ELSE IF n >= 65536 THEN 16 + BitLen(n \div 65536)
    ELSE IF n >= 256 THEN 8 + BitLen(n \div 256)
    ELSE IF n >= 16 THEN 4 + BitLen(n \div 16)
    ELSE 1 + BitLen(n \div 2)

\* Significand and exponent of a finite value: x = Sig(x) * 2^Exp(x).
Sig(x) == IF x.e = 0 THEN x.f ELSE 8388608 + x.f

Exp(x) == IF x.e = 0 THEN -149 ELSE x.e - 150

\* The same, with the significand shifted up to exactly 24 bits (x # 0).
NSig(x) == Sig(x) * 2^(24 - BitLen(Sig(x)))

NExp(x) == Exp(x) - (24 - BitLen(Sig(x)))

\* The value of significand m (at most 2^24) at exponent q: subnormal below
\* 2^23, infinite from exponent 255 on.
Pack(s, m, q) ==
    IF m < 8388608 THEN F32(s, 0, m)
    ELSE IF q + 150 + (m \div 16777216) >= 255 THEN FInf(s)
    ELSE F32(s, q + 150 + (m \div 16777216), m % 8388608)

\* m0 with the dropped bits rem (half is the weight of the first of them)
\* rounded to nearest, ties to even.
RoundNearest(s, m0, rem, half, q, sticky) ==
    Pack(s, IF rem > half \/ (rem = half /\ (sticky \/ m0 % 2 = 1))
            THEN m0 + 1 ELSE m0, q)

\* M shifted right by sh bits (left when sh is negative) and rounded.
RoundShift(s, M, Q, sticky, sh) ==
    IF sh <= 0 THEN Pack(s, M * 2^(-sh), Q + sh)
    ELSE IF sh > 30 THEN Pack(s, 0, Q + sh)
    ELSE RoundNearest(s, M \div 2^sh, M % 2^sh, 2^(sh - 1), Q + sh, sticky)

\* Round M * 2^Q (M > 0; sticky: nonzero bits were dropped below M) to the
\* nearest binary32, ties to even, with gradual underflow and overflow to
\* infinity.
RoundPack(s, M, Q, sticky) ==
    RoundShift(s, M, Q, sticky, MaxOf(BitLen(M) - 24, -149 - Q))

\* The 48-bit product of the 24-bit significands a1 * 4096 + b1 and
\* a2 * 4096 + b2, from partial products below 2^31: mid is the sum of the
\* middle terms and the carry of the low one, lo the twelve lowest bits.
MulRound(s, hi, mid, lo, Q) ==
    RoundPack(s, (hi + (mid \div 4096)) * 4 + ((mid % 4096) \div 1024), Q,
              (mid % 1024) # 0 \/ lo # 0)

MulParts(s, a1, b1, a2, b2, Q) ==
    MulRound(s, a1 * a2, a1 * b2 + a2 * b1 + ((b1 * b2) \div 4096),
             (b1 * b2) % 4096, Q)

MulSig(s, m1, m2, Q) ==
    MulParts(s, m1 \div 4096, m1 % 4096, m2 \div 4096, m2 % 4096, Q)

\* a * b
FMul(a, b) ==
    IF IsNaN(a) \/ IsNaN(b) THEN FNaN
    ELSE IF IsInf(a) \/ IsInf(b)
         THEN IF IsZero(a) \/ IsZero(b) THEN FNaN ELSE FInf((a.s + b.s) % 2)
    ELSE IF IsZero(a) \/ IsZero(b) THEN F32((a.s + b.s) % 2, 0, 0)
    ELSE MulSig((a.s + b.s) % 2, NSig(a), NSig(b), NExp(a) + NExp(b) + 22)

\* n further quotient bits of r / d by long division: <<quotient, remainder>>
\* (r < d < 2^24; six bits at a time while six remain, 64 * r staying below
\* 2^30).
RECURSIVE DivBits(_, _, _, _)
DivBits(r, d, n, acc) ==
    IF n = 0 THEN <<acc, r>>
    ELSE IF n >= 6
         THEN DivBits((64 * r) % d, d, n - 6, 64 * acc + ((64 * r) \div d))
    ELSE IF 2 * r >= d THEN DivBits(2 * r - d, d, n - 1, 2 * acc + 1)
    ELSE DivBits(2 * r, d, n - 1, 2 * acc)

\* qr is <<quotient, remainder>>: a nonzero remainder is sticky.
DivRound(s, qr, Q) == RoundPack(s, qr[1], Q, qr[2] # 0)

\* The quotient of the significands m1 / m2 with 26 further bits.
DivSig(s, m1, m2, Q) ==
    DivRound(s, DivBits(m1 % m2, m2, 26, m1 \div m2), Q)

\* a / b
FDiv(a, b) ==
    IF IsNaN(a) \/ IsNaN(b) THEN FNaN
    ELSE IF IsInf(a) THEN (IF IsInf(b) THEN FNaN ELSE FInf((a.s + b.s) % 2))
    ELSE IF IsInf(b) THEN F32((a.s + b.s) % 2, 0, 0)
    ELSE IF IsZero(b)
         THEN (IF IsZero(a) THEN FNaN ELSE FInf((a.s + b.s) % 2))
    ELSE IF IsZero(a) THEN F32((a.s + b.s) % 2, 0, 0)
    ELSE DivSig((a.s + b.s) % 2, NSig(a), NSig(b), NExp(a) - NExp(b) - 26)

\* m shifted right by d bits, any dropped nonzero bit kept in the last bit.
ShiftRightJam(m, d) ==
    IF d = 0 THEN m
    ELSE IF d > 30 THEN 1
    ELSE LET t == m \div 2^d
         IN  IF m % 2^d # 0 /\ t % 2 = 0 THEN t + 1 ELSE t

\* x + y for aligned significands mx (of x) and my (of y) at exponent Q.
AddAligned(x, y, mx, my, Q) ==
    IF x.s = y.s THEN RoundPack(x.s, mx + my, Q, FALSE)
    ELSE IF mx = my THEN FZero
    ELSE RoundPack(IF mx > my THEN x.s ELSE y.s,
                   IF mx > my THEN mx - my ELSE my - mx, Q, FALSE)

\* x + y for nonzero finite x, y with the exponent of x not below that of y;
\* three guard bits are kept, the last one sticky.
AddOrdered(x, y) ==
    AddAligned(x, y, NSig(x) * 8,
               ShiftRightJam(NSig(y) * 8, NExp(x) - NExp(y)), NExp(x) - 3)

\* a + b
FAdd(a, b) ==
    IF IsNaN(a) \/ IsNaN(b) THEN FNaN
    ELSE IF IsInf(a) THEN (IF IsInf(b) /\ a.s # b.s THEN FNaN ELSE a)
    ELSE IF IsInf(b) THEN b
    ELSE IF IsZero(a) /\ IsZero(b) THEN F32(a.s * b.s, 0, 0)
    ELSE IF IsZero(a) THEN b
    ELSE IF IsZero(b) THEN a
    ELSE IF NExp(a) >= NExp(b) THEN AddOrdered(a, b)
    ELSE AddOrdered(b, a)

\* a - b
FSub(a, b) == FAdd(a, FNeg(b))

\* Square root digit by digit: i counts the remaining bit pairs of the
\* radicand m * 4^14; <<root, remainder>>.
RECURSIVE SqrtBits(_, _, _, _)
SqrtBits(m, i, root, rem) ==
    IF i = 0 THEN <<root, rem>>
    ELSE LET pair == IF i > 14 THEN (m \div 4^(i - 15)) % 4 ELSE 0
             r == rem * 4 + pair
             t == 4 * root + 1
         IN  IF r >= t THEN SqrtBits(m, i - 1, 2 * root + 1, r - t)
             ELSE SqrtBits(m, i - 1, 2 * root, r)

\* sqrt(m * 2^q) for an even q.
SqrtSig(m, q) == DivRound(0, SqrtBits(m, 27, 0, 0), (q - 28) \div 2)

\* sqrt(x)
FSqrt(x) ==
    IF IsNaN(x) THEN FNaN
    ELSE IF IsZero(x) THEN x
    ELSE IF x.s = 1 THEN FNaN
    ELSE IF IsInf(x) THEN x
    ELSE IF NExp(x) % 2 # 0 THEN SqrtSig(NSig(x) * 2, NExp(x) - 1)
    ELSE SqrtSig(NSig(x), NExp(x))

\* Total order key of a non-NaN value (both zeros map to 0).
FKey(x) == IF x.s = 0 THEN x.e * 8388608 + x.f ELSE -(x.e * 8388608 + x.f)

\* a == b, a < b as f32 comparisons.
FEq(a, b) == ~IsNaN(a) /\ ~IsNaN(b) /\ FKey(a) = FKey(b)

FLt(a, b) == ~IsNaN(a) /\ ~IsNaN(b) /\ FKey(a) < FKey(b)

\* f32::min, f32::max: the other argument when one is NaN.
FMin(a, b) == IF IsNaN(a) THEN b ELSE IF IsNaN(b) THEN a
              ELSE IF FLt(b, a) THEN b ELSE a

FMax(a, b) == IF IsNaN(a) THEN b ELSE IF IsNaN(b) THEN a
              ELSE IF FLt(a, b) THEN b ELSE a

\* n as f32 for a natural number n below 2^31.
IntToF32(n) == IF n = 0 THEN FZero ELSE RoundPack(0, n, 0, FALSE)


FOne == F32(0, 127, 0)

\* `x as u32` (CompressedBits): truncation toward zero, saturating, NaN to 0.
\* The result is kept as two 16-bit halves, hi * 65536 + lo.
F32ToU32(x) ==
    IF IsNaN(x) \/ x.s = 1 \/ x.e < 127 THEN [hi |-> 0, lo |-> 0]
    ELSE IF x.e >= 159 THEN [hi |-> 65535, lo |-> 65535]
    ELSE LET m == Sig(x)
             q == Exp(x)
         IN  IF q < 0
             THEN [hi |-> (m \div 2^(-q)) \div 65536,
                   lo |-> (m \div 2^(-q)) % 65536]
             ELSE [hi |-> m \div 2^(16 - q),
                   lo |-> (m % 2^(16 - q)) * 2^q]

\* The n least significant bits of a u32 given as halves (n <= 30).
LowBits(u, n) ==
    IF n > 16 THEN (u.hi % 2^(n - 16)) * 65536 + u.lo ELSE u.lo % 2^n

(***************************************************************************)
(* Bits and bytes                                                          *)
(***************************************************************************)
\* The n low bits of v, least significant first.
IntToBits(v, n) == [i \in 1..n |-> (v \div 2^(i - 1)) % 2]

\* The number whose bits are given least significant first, the low half
\* of the bits and the high half each taken on its own.
RECURSIVE BitsToInt(_)
BitsToIntHalves(bits, h) ==
    BitsToInt(SubSeq(bits, 1, h))
    + 2^h * BitsToInt(SubSeq(bits, h + 1, Len(bits)))

BitsToInt(bits) ==
    IF bits = <<>> THEN 0
    ELSE IF Len(bits) = 1 THEN bits[1]
    ELSE BitsToIntHalves(bits, Len(bits) \div 2)

Zeros(n) == [i \in 1..n |-> 0]

\* Each byte gives eight bits, least significant first.
BytesToBits(bytes) ==
    [i \in 1..(8 * Len(bytes)) |->
        (bytes[((i - 1) \div 8) + 1] \div 2^((i - 1) % 8)) % 2]

\* BitsToBytes with the first bit in the most significant place of its byte.
BitsToBytes_msb0(bits) ==
    [i \in 1..((Len(bits) + 7) \div 8) |->
        BitsToInt([j \in 1..8 |->
                      IF 8 * (i - 1) + (9 - j) <= Len(bits)
                      THEN bits[8 * (i - 1) + (9 - j)] ELSE 0])]

\* BitVec<u8, Lsb0>::into_vec: whole bytes, the last one padded with zeros.
BitsToBytes(bits) ==
    [i \in 1..((Len(bits) + 7) \div 8) |->
        BitsToInt([j \in 1..8 |->
                      IF 8 * (i - 1) + j <= Len(bits)
                      THEN bits[8 * (i - 1) + j] ELSE 0])]

(***************************************************************************)
(* Flags and compression descriptors                                       *)
(***************************************************************************)
ScaleNone == 0

ScaleNoInheritance == 1

Scale == 2

UniformScale == 3

\* CompressionFlags is a 16 bit field, the first member in the lowest bits.
scale_type(flags) == flags % 4

has_rotation(flags) == (flags \div 4) % 2 = 1

has_translation(flags) == (flags \div 8) % 2 = 1

Kinds == {"Transform", "UvTransform", "Float", "PatternIndex", "Boolean", "Vector4"}

F32Compression(min, max, bit_count) ==
    [min |-> min, max |-> max, bit_count |-> bit_count]

Vector3(x, y, z) == [x |-> x, y |-> y, z |-> z]

Vector4(x, y, z, w) == [x |-> x, y |-> y, z |-> z, w |-> w]

xyz(v) == Vector3(v.x, v.y, v.z)

Vector3_bit_count(c) == c.x.bit_count + c.y.bit_count + c.z.bit_count

Vector4_bit_count(c) ==
    c.x.bit_count + c.y.bit_count + c.z.bit_count + c.w.bit_count

\* Transform_bit_count that counts all three scale components for every scale
\* type but None.
Transform_bit_count_full_scale(c, flags) ==
    Vector3_bit_count(c.translation)
    + (IF scale_type(flags) = ScaleNone THEN 0 ELSE Vector3_bit_count(c.scale))
    + Vector3_bit_count(c.rotation) + (IF has_rotation(flags) THEN 1 ELSE 0)

Transform_bit_count(c, flags) ==
    LET translation == Vector3_bit_count(c.translation)
        scale == IF scale_type(flags) \in {Scale, ScaleNoInheritance}
                 THEN Vector3_bit_count(c.scale)
                 ELSE IF scale_type(flags) = UniformScale
                      THEN c.scale.x.bit_count
                 ELSE 0
        rotation == Vector3_bit_count(c.rotation)
    IN  translation + scale + rotation + (IF has_rotation(flags) THEN 1 ELSE 0)

UvTransform_bit_count(c) ==
    c.scale_u.bit_count + c.scale_v.bit_count + c.rotation.bit_count
    + c.translate_u.bit_count + c.translate_v.bit_count

\* Compression::bit_count for the descriptor type of each track kind.
bit_count(kind, c, flags) ==
    CASE kind = "Transform" -> Transform_bit_count(c, flags)
      [] kind = "UvTransform" -> UvTransform_bit_count(c)
      [] kind = "Float" -> c.bit_count
      [] kind = "PatternIndex" -> c.bit_count
      [] kind = "Boolean" -> 1
      [] kind = "Vector4" -> Vector4_bit_count(c)


(***************************************************************************)
(* Reading: quantization and per kind decompression.  A read returns       *)
(* [st, v, pos]: st is "Ok", "Err" (a bit reader error, propagated by ?)    *)
(* or "Panic" (an unwrap of such an error); pos is the reader's bit index. *)
(***************************************************************************)
Ok(v, pos) == [st |-> "Ok", v |-> v, pos |-> pos]

Fail(st, pos) == [st |-> st, v |-> 0, pos |-> pos]

\* BitReadStream::read_int::<T>(n) for a T of width bits.
read_int(bits, pos, n, width) ==
    IF n > width THEN Fail("Err", pos)
    ELSE IF Len(bits) - pos < n THEN Fail("Err", pos)
    ELSE Ok(BitsToInt(SubSeq(bits, pos + 1, pos + n)), pos + n)

bit_mask(n) == 2^n - 1

\* The closure lerp of decompress_f32.
lerp(a, b, t) == FAdd(FMul(a, FSub(FOne, t)), FMul(b, t))

decompress_f32(value, min, max, n) ==
    lerp(min, max, FDiv(IntToF32(value), IntToF32(bit_mask(n))))

compress_f32(value, min, max, n) ==
    F32ToU32(FMul(FDiv(FSub(value, min), FSub(max, min)),
                  IntToF32(bit_mask(n))))

\* read_compressed_f32 followed by unwrap_or(default).
f32_decompress(bits, pos, c, default) ==
    IF c.bit_count = 0 THEN Ok(default, pos)
    ELSE IF FEq(c.min, c.max) THEN Ok(default, pos)
    ELSE LET r == read_int(bits, pos, c.bit_count, 32)
         IN  IF r.st # "Ok" THEN r
             ELSE Ok(decompress_f32(r.v, c.min, c.max, c.bit_count), r.pos)

\* The f32 fields of a struct decompressed in order, cs their descriptors and
\* ds their defaults: the first error is returned (`?`), else the values.
RECURSIVE decompress_fields(_, _, _, _, _)
decompress_field(bits, cs, ds, acc, r) ==
    IF r.st # "Ok" THEN r
    ELSE decompress_fields(bits, r.pos, Tail(cs), Tail(ds), Append(acc, r.v))

decompress_fields(bits, pos, cs, ds, acc) ==
    IF cs = <<>> THEN Ok(acc, pos)
    ELSE decompress_field(bits, cs, ds, acc,
                          f32_decompress(bits, pos, cs[1], ds[1]))

\* r.v[ix[1]], r.v[ix[2]], ... of a successful read r as a struct.
Vector3_from(r, ix) ==
    IF r.st # "Ok" THEN r
    ELSE Ok(Vector3(r.v[ix[1]], r.v[ix[2]], r.v[ix[3]]), r.pos)

Vector4_from(r) ==
    IF r.st # "Ok" THEN r
    ELSE Ok(Vector4(r.v[1], r.v[2], r.v[3], r.v[4]), r.pos)

Vector3_decompress(bits, pos, c, default) ==
    Vector3_from(decompress_fields(bits, pos, <<c.x, c.y, c.z>>,
                     <<default.x, default.y, default.z>>, <<>>),
                 <<1, 2, 3>>)

Vector4_decompress(bits, pos, c, default) ==
    Vector4_from(decompress_fields(bits, pos, <<c.x, c.y, c.z, c.w>>,
                     <<default.x, default.y, default.z, default.w>>, <<>>))

\* The sign bit of w follows the value w computed from x, y and z; a failed
\* read of the bit is unwrapped.
rotation_w_sign(bits, pos, w) ==
    LET flip_w == read_int(bits, pos, 1, 8)
    IN  IF flip_w.st # "Ok" THEN Fail("Panic", pos)
        ELSE Ok(IF flip_w.v # 0 THEN FNeg(w) ELSE w, flip_w.pos)

sqrt_or_nan(w2) == FSqrt(w2)

sqrt_or_zero(w2) == IF is_sign_negative(w2) THEN FZero ELSE FSqrt(w2)

calculate_rotation_w(bits, pos, rotation) ==
    rotation_w_sign(bits, pos,
        sqrt_or_zero(FSub(FOne, FAdd(FAdd(FMul(rotation.x, rotation.x),
                                          FMul(rotation.y, rotation.y)),
                                     FMul(rotation.z, rotation.z)))))

UncompressedTransform(scale, rotation, translation, compensate_scale) ==
    [scale |-> scale, rotation |-> rotation, translation |-> translation,
     compensate_scale |-> compensate_scale]

\* read_transform_compressed, one step per definition; each takes the results
\* of the reads before it and returns the first error.
read_transform_scale(bits, pos, c, default, flags) ==
    IF scale_type(flags) = UniformScale
    THEN Vector3_from(decompress_fields(bits, pos, <<c.scale.x>>,
                                        <<default.scale.x>>, <<>>),
                      <<1, 1, 1>>)
    ELSE Vector3_decompress(bits, pos, c.scale, default.scale)

read_transform_end(default, scale, rotation_xyz, translation, rotation_w) ==
    IF rotation_w.st # "Ok" THEN rotation_w
    ELSE Ok(UncompressedTransform(
                scale.v,
                Vector4(rotation_xyz.v.x, rotation_xyz.v.y, rotation_xyz.v.z,
                        rotation_w.v),
                translation.v, default.compensate_scale),
            rotation_w.pos)

read_transform_rotation_w(bits, default, flags, scale, rotation_xyz, translation) ==
    IF translation.st # "Ok" THEN translation
    ELSE read_transform_end(default, scale, rotation_xyz, translation,
             IF has_rotation(flags)
             THEN calculate_rotation_w(bits, translation.pos, rotation_xyz.v)
             ELSE Ok(default.rotation.w, translation.pos))

read_transform_translation(bits, c, default, flags, scale, rotation_xyz) ==
    IF rotation_xyz.st # "Ok" THEN rotation_xyz
    ELSE read_transform_rotation_w(bits, default, flags, scale, rotation_xyz,
             Vector3_decompress(bits, rotation_xyz.pos, c.translation,
                                default.translation))

read_transform_rotation(bits, c, default, flags, scale) ==
    IF scale.st # "Ok" THEN scale
    ELSE read_transform_translation(bits, c, default, flags, scale,
             Vector3_decompress(bits, scale.pos, c.rotation,
                                xyz(default.rotation)))

read_transform_compressed(bits, pos, c, default, flags) ==
    read_transform_rotation(bits, c, default, flags,
        read_transform_scale(bits, pos, c, default, flags))

UvTransform(scale_u, scale_v, rotation, translate_u, translate_v) ==
    [scale_u |-> scale_u, scale_v |-> scale_v, rotation |-> rotation,
     translate_u |-> translate_u, translate_v |-> translate_v]

UvTransform_from(r, ix) ==
    IF r.st # "Ok" THEN r
    ELSE Ok(UvTransform(r.v[ix[1]], r.v[ix[2]], r.v[ix[3]], r.v[ix[4]],
                        r.v[ix[5]]), r.pos)

\* A uniform scale is read once and used for scale_u and scale_v.
read_uv_transform_compressed(bits, pos, c, default, flags) ==
    IF scale_type(flags) = UniformScale
    THEN UvTransform_from(
             decompress_fields(bits, pos,
                 <<c.scale_u, c.rotation, c.translate_u, c.translate_v>>,
                 <<default.scale_u, default.rotation, default.translate_u,
                   default.translate_v>>, <<>>),
             <<1, 1, 2, 3, 4>>)
    ELSE UvTransform_from(
             decompress_fields(bits, pos,
                 <<c.scale_u, c.scale_v, c.rotation, c.translate_u,
                   c.translate_v>>,
                 <<default.scale_u, default.scale_v, default.rotation,
                   default.translate_u, default.translate_v>>, <<>>),
             <<1, 2, 3, 4, 5>>)

read_pattern_index_compressed(bits, pos, c, default) ==
    LET r == read_int(bits, pos, c.bit_count, 32)
    IN  IF r.st # "Ok" THEN r ELSE Ok(r.v + c.min, r.pos)

Boolean_decompress(bits, pos, bits_per_entry) ==
    read_int(bits, pos, bits_per_entry, 8)

\* CompressedData::get_args and CompressedData::decompress by track kind.
decompress(kind, bits, pos, c, default, header) ==
    CASE kind = "Transform" ->
             read_transform_compressed(bits, pos, c, default, header.flags)
      [] kind = "UvTransform" ->
             read_uv_transform_compressed(bits, pos, c, default, header.flags)
      [] kind = "Float" -> f32_decompress(bits, pos, c, default)
      [] kind = "PatternIndex" ->
             read_pattern_index_compressed(bits, pos, c, default)
      [] kind = "Boolean" ->
             Boolean_decompress(bits, pos, header.bits_per_entry)
      [] kind = "Vector4" -> Vector4_decompress(bits, pos, c, default)


(***************************************************************************)
(* Reading a compressed track                                              *)
(***************************************************************************)
None == [some |-> FALSE]

Some(v) == [some |-> TRUE, v |-> v]

CompressedHeader(unk_4, flags, default_data, bits_per_entry, compressed_data, frame_count) ==
    [unk_4 |-> unk_4, flags |-> flags, default_data |-> default_data,
     bits_per_entry |-> bits_per_entry, compressed_data |-> compressed_data,
     frame_count |-> frame_count]

CompressedTrackData(header, compression) ==
    [header |-> header, compression |-> compression]

\* A failed read: no values.
Error(status) == [status |-> status, values |-> <<>>]

\* The decoding loop of read_compressed_inner: n frames are still to be read,
\* r is the frame just decompressed.
RECURSIVE ReadFrames(_, _, _, _, _, _)
ReadFrame(kind, data, bits, n, values, r) ==
    IF r.st = "Err" THEN Error("Truncated")
    ELSE IF r.st = "Panic" THEN Error("Panic")
    ELSE ReadFrames(kind, data, bits, r.pos, n - 1, Append(values, r.v))

ReadFrames(kind, data, bits, pos, n, values) ==
    IF n = 0 THEN [status |-> "Ok", values |-> values]
    ELSE IF ~data.header.default_data.some
         THEN Error("MalformedCompressionHeader")
    ELSE ReadFrame(kind, data, bits, n, values,
                   decompress(kind, bits, pos, data.compression,
                              data.header.default_data.v, data.header))

\* read_compressed_inner that looks at the buffer pointer before the bit count.
read_compressed_inner_pointer_first(kind, data, frame_count) ==
    LET expected_bit_count ==
            bit_count(kind, data.compression, data.header.flags)
        actual_count == IF expected_bit_count = 0 /\ frame_count > 0
                        THEN 1 ELSE frame_count
    IN  IF ~data.header.compressed_data.some
        THEN Error("MalformedCompressionHeader")
        ELSE IF data.header.bits_per_entry # expected_bit_count
             THEN [status |-> "UnexpectedBitCount", values |-> <<>>,
                   expected |-> expected_bit_count,
                   actual |-> data.header.bits_per_entry]
        ELSE ReadFrames(kind, data,
                        BytesToBits(data.header.compressed_data.v), 0,
                        actual_count, <<>>)

read_compressed_inner(kind, data, frame_count) ==
    LET expected_bit_count ==
            bit_count(kind, data.compression, data.header.flags)
        actual_count == IF expected_bit_count = 0 /\ frame_count > 0
                        THEN 1 ELSE frame_count
    IN  IF data.header.bits_per_entry # expected_bit_count
        THEN [status |-> "UnexpectedBitCount", values |-> <<>>,
              expected |-> expected_bit_count,
              actual |-> data.header.bits_per_entry]
        ELSE IF ~data.header.compressed_data.some
             THEN Error("MalformedCompressionHeader")
        ELSE ReadFrames(kind, data,
                        BytesToBits(data.header.compressed_data.v), 0,
                        actual_count, <<>>)

\* read_compressed_transforms that drops the flag of the default block.
read_compressed_transforms_no_flag(data, frame_count) ==
    IF ~data.header.default_data.some
    THEN <<Error("MalformedCompressionHeader"), FALSE>>
    ELSE <<read_compressed_inner("Transform", data, frame_count), FALSE>>

\* <<result of read_compressed_inner, compensate_scale>>
read_compressed_transforms(data, frame_count) ==
    IF ~data.header.default_data.some
    THEN <<Error("MalformedCompressionHeader"), FALSE>>
    ELSE <<read_compressed_inner("Transform", data, frame_count),
           data.header.default_data.v.compensate_scale # 0>>

Transform(scale, rotation, translation) ==
    [scale |-> scale, rotation |-> rotation, translation |-> translation]

\* impl From<&UncompressedTransform> for Transform
Transform_from(t) == Transform(t.scale, t.rotation, t.translation)

\* impl From<&Boolean> for bool
bool_from(v) == v # 0

\* The values read, as the element type of the TrackValues variant.
TrackValues_from(kind, r, compensate_scale) ==
    IF r.status # "Ok" THEN r
    ELSE [status |-> "Ok",
          values |-> CASE kind = "Transform" ->
                              [i \in 1..Len(r.values) |->
                                   Transform_from(r.values[i])]
                       [] kind = "Boolean" ->
                              [i \in 1..Len(r.values) |->
                                   bool_from(r.values[i])]
                       [] OTHER -> r.values,
          compensate_scale |-> compensate_scale]

TrackValues_from_transforms(t) == TrackValues_from("Transform", t[1], t[2])

\* The Compressed branch of read_track_values on parsed track data.
read_track_values_compressed(kind, data, count) ==
    IF kind = "Transform"
    THEN TrackValues_from_transforms(read_compressed_transforms(data, count))
    ELSE TrackValues_from(kind, read_compressed_inner(kind, data, count),
                          FALSE)


(***************************************************************************)
(* Writing: default value, descriptor and bit packing                      *)
(***************************************************************************)
DEFAULT_F32_BIT_COUNT == 24

\* Iterator::reduce(op) on a non-empty sequence.
\* Iterator::reduce from element i on, with acc the value so far.
RECURSIVE Reduce(_, _, _, _)
Reduce(Op(_, _), seq, i, acc) ==
    IF i > Len(seq) THEN acc ELSE Reduce(Op, seq, i + 1, Op(acc, seq[i]))

find_min_f32(seq) == IF seq = <<>> THEN FZero ELSE Reduce(FMin, seq, 2, seq[1])

find_max_f32(seq) == IF seq = <<>> THEN FZero ELSE Reduce(FMax, seq, 2, seq[1])

Vector3_min(a, b) == Vector3(FMin(a.x, b.x), FMin(a.y, b.y), FMin(a.z, b.z))

Vector3_max(a, b) == Vector3(FMax(a.x, b.x), FMax(a.y, b.y), FMax(a.z, b.z))

Vector4_min(a, b) ==
    Vector4(FMin(a.x, b.x), FMin(a.y, b.y), FMin(a.z, b.z), FMin(a.w, b.w))

Vector4_max(a, b) ==
    Vector4(FMax(a.x, b.x), FMax(a.y, b.y), FMax(a.z, b.z), FMax(a.w, b.w))

Vector3_ZERO == Vector3(FZero, FZero, FZero)

Vector4_ZERO == Vector4(FZero, FZero, FZero, FZero)

find_min_vector3(seq) ==
    IF seq = <<>> THEN Vector3_ZERO ELSE Reduce(Vector3_min, seq, 2, seq[1])

find_max_vector3(seq) ==
    IF seq = <<>> THEN Vector3_ZERO ELSE Reduce(Vector3_max, seq, 2, seq[1])

find_min_vector4(seq) ==
    IF seq = <<>> THEN Vector4_ZERO ELSE Reduce(Vector4_min, seq, 2, seq[1])

find_max_vector4(seq) ==
    IF seq = <<>> THEN Vector4_ZERO ELSE Reduce(Vector4_max, seq, 2, seq[1])

IntMin(a, b) == IF b < a THEN b ELSE a

IntMax(a, b) == IF b > a THEN b ELSE a

F32Compression_from_range(min, max) ==
    F32Compression(min, max,
                   IF FEq(min, max) THEN 0 ELSE DEFAULT_F32_BIT_COUNT)

Vector3Compression_from_range(min, max) ==
    Vector3(F32Compression_from_range(min.x, max.x),
            F32Compression_from_range(min.y, max.y),
            F32Compression_from_range(min.z, max.z))

Vector4Compression_from_range(min, max) ==
    Vector4(F32Compression_from_range(min.x, max.x),
            F32Compression_from_range(min.y, max.y),
            F32Compression_from_range(min.z, max.z),
            F32Compression_from_range(min.w, max.w))

Field(seq, f) == [i \in 1..Len(seq) |-> seq[i][f]]

\* CompressedData::get_default_and_compression by track kind:
\* <<default, compression>>.
Transform_get_default_and_compression(vs, cs) ==
    LET min_scale == find_min_vector3(Field(vs, "scale"))
        max_scale == find_max_vector3(Field(vs, "scale"))
        min_rotation == find_min_vector4(Field(vs, "rotation"))
        max_rotation == find_max_vector4(Field(vs, "rotation"))
        min_translation == find_min_vector3(Field(vs, "translation"))
        max_translation == find_max_vector3(Field(vs, "translation"))
    IN  <<UncompressedTransform(min_scale, min_rotation, min_translation,
                                IF cs THEN 1 ELSE 0),
          [scale |-> Vector3Compression_from_range(min_scale, max_scale),
           rotation |-> Vector3Compression_from_range(xyz(min_rotation),
                                                      xyz(max_rotation)),
           translation |-> Vector3Compression_from_range(min_translation,
                                                         max_translation)]>>

\* The descriptor of one f32 field from the values it takes.
f32_range(seq) == F32Compression_from_range(find_min_f32(seq), find_max_f32(seq))

UvTransform_get_default_and_compression(vs) ==
    <<UvTransform(find_min_f32(Field(vs, "scale_u")),
                  find_min_f32(Field(vs, "scale_v")),
                  find_min_f32(Field(vs, "rotation")),
                  find_min_f32(Field(vs, "translate_u")),
                  find_min_f32(Field(vs, "translate_v"))),
      [scale_u |-> f32_range(Field(vs, "scale_u")),
       scale_v |-> f32_range(Field(vs, "scale_v")),
       rotation |-> f32_range(Field(vs, "rotation")),
       translate_u |-> f32_range(Field(vs, "translate_u")),
       translate_v |-> f32_range(Field(vs, "translate_v"))]>>

u32_get_default_and_compression(vs) ==
    <<0, [min |-> IF vs = <<>> THEN 0 ELSE Reduce(IntMin, vs, 2, vs[1]),
          max |-> IF vs = <<>> THEN 0 ELSE Reduce(IntMax, vs, 2, vs[1]),
          bit_count |-> DEFAULT_F32_BIT_COUNT]>>

f32_get_default_and_compression(vs) == <<find_min_f32(vs), f32_range(vs)>>

Vector4_get_default_and_compression(vs) ==
    <<find_min_vector4(vs),
      Vector4Compression_from_range(find_min_vector4(vs),
                                    find_max_vector4(vs))>>

get_default_and_compression(k, vs, cs) ==
    CASE k = "Transform" -> Transform_get_default_and_compression(vs, cs)
      [] k = "UvTransform" -> UvTransform_get_default_and_compression(vs)
      [] k = "Float" -> f32_get_default_and_compression(vs)
      [] k = "PatternIndex" -> u32_get_default_and_compression(vs)
      [] k = "Boolean" -> <<0, 0>>
      [] k = "Vector4" -> Vector4_get_default_and_compression(vs)

\* The bit writer: out holds the bits written so far (the bit index is its
\* length), cap the size the buffer was resized to; ok turns FALSE when a
\* write indexes past the buffer, which panics.
BitWriter(cap) == [out |-> <<>>, cap |-> cap, ok |-> TRUE]

\* bits[bit_index..bit_index + n].store_le(v); bit_index += n
store_le(w, v, n) ==
    IF ~w.ok \/ n = 0 \/ n > 32 \/ Len(w.out) + n > w.cap
    THEN [w EXCEPT !.ok = FALSE]
    ELSE [w EXCEPT !.out = w.out \o IntToBits(v, n)]

\* *bits.get_mut(bit_index).unwrap() = b; bit_index += 1
set_bit(w, b) ==
    IF ~w.ok \/ Len(w.out) + 1 > w.cap
    THEN [w EXCEPT !.ok = FALSE]
    ELSE [w EXCEPT !.out = Append(w.out, IF b THEN 1 ELSE 0)]

f32_compress(w, v, c) ==
    IF c.bit_count # 0
    THEN store_le(w, LowBits(compress_f32(v, c.min, c.max, c.bit_count),
                             c.bit_count), c.bit_count)
    ELSE w

\* The f32 fields vs of a struct compressed in order with descriptors cs.
RECURSIVE compress_fields(_, _, _, _)
compress_fields(w, vs, cs, i) ==
    IF i > Len(vs) \/ ~w.ok THEN w
    ELSE compress_fields(f32_compress(w, vs[i], cs[i]), vs, cs, i + 1)

Vector3_compress(w, v, c) ==
    compress_fields(w, <<v.x, v.y, v.z>>, <<c.x, c.y, c.z>>, 1)

Vector4_compress(w, v, c) ==
    compress_fields(w, <<v.x, v.y, v.z, v.w>>, <<c.x, c.y, c.z, c.w>>, 1)

\* Transform::compress, one step per definition, w the writer so far.
Transform_compress_scale(w, v, c, flags) ==
    IF scale_type(flags) \in {Scale, ScaleNoInheritance}
    THEN Vector3_compress(w, v.scale, c.scale)
    ELSE IF scale_type(flags) = UniformScale
         THEN compress_fields(w, <<v.scale.x>>, <<c.scale.x>>, 1)
    ELSE w

Transform_compress_rotation(w, v, c, flags) ==
    IF has_rotation(flags)
    THEN Vector3_compress(w, xyz(v.rotation), c.rotation)
    ELSE w

Transform_compress_translation(w, v, c, flags) ==
    IF has_translation(flags)
    THEN Vector3_compress(w, v.translation, c.translation)
    ELSE w

Transform_compress_sign(w, v, flags) ==
    IF has_rotation(flags)
    THEN set_bit(w, is_sign_negative(v.rotation.w))
    ELSE w

Transform_compress(w, v, c, flags) ==
    Transform_compress_sign(
        Transform_compress_translation(
            Transform_compress_rotation(
                Transform_compress_scale(w, v, c, flags), v, c, flags),
            v, c, flags),
        v, flags)

UvTransform_compress(w, v, c) ==
    compress_fields(w,
        <<v.scale_u, v.scale_v, v.rotation, v.translate_u, v.translate_v>>,
        <<c.scale_u, c.scale_v, c.rotation, c.translate_u, c.translate_v>>, 1)

\* The difference is a u32; here values and min stay below 2^31.
u32_compress(w, v, c) ==
    store_le(w, (v - c.min) % 2^IntMin(c.bit_count, 30), c.bit_count)

Boolean_compress(w, v) == set_bit(w, bool_from(v))

compress(k, w, v, c, flags) ==
    CASE k = "Transform" -> Transform_compress(w, v, c, flags)
      [] k = "UvTransform" -> UvTransform_compress(w, v, c)
      [] k = "Float" -> f32_compress(w, v, c)
      [] k = "PatternIndex" -> u32_compress(w, v, c)
      [] k = "Boolean" -> Boolean_compress(w, v)
      [] k = "Vector4" -> Vector4_compress(w, v, c)

RECURSIVE CompressAll(_, _, _, _, _, _)
CompressAll(k, w, vs, i, c, flags) ==
    IF i > Len(vs) \/ ~w.ok THEN w
    ELSE CompressAll(k, compress(k, w, vs[i], c, flags), vs, i + 1, c, flags)

\* into_bytes with the padding of the last byte put before the first frame.
into_bytes_pad_first(w) ==
    [ok |-> w.ok,
     bytes |-> IF w.ok
               THEN BitsToBytes(Zeros((8 - (w.cap % 8)) % 8) \o w.out
                                \o Zeros(w.cap - Len(w.out)))
               ELSE <<>>]

\* BitWriter::into_bytes: [ok, bytes], ok is FALSE when compressing panicked.
into_bytes(w) ==
    [ok |-> w.ok,
     bytes |-> IF w.ok THEN BitsToBytes(w.out \o Zeros(w.cap - Len(w.out)))
               ELSE <<>>]

\* create_compressed_buffer with a buffer sized for at least one frame.
create_compressed_buffer_one_frame(k, vs, c, flags) ==
    into_bytes(CompressAll(k, BitWriter(IntMax(1, Len(vs))
                                        * bit_count(k, c, flags)),
                           vs, 1, c, flags))

create_compressed_buffer(k, vs, c, flags) ==
    into_bytes(CompressAll(k, BitWriter(Len(vs) * bit_count(k, c, flags)),
                           vs, 1, c, flags))

(***************************************************************************)
(* Little-endian records                                                   *)
(***************************************************************************)
u16_le(v) == <<v % 256, v \div 256>>

\* v stays below 2^31.
u32_le(v) ==
    <<v % 256, (v \div 256) % 256, (v \div 65536) % 256, v \div 16777216>>

u64_le(v) == u32_le(v) \o <<0, 0, 0, 0>>

u128_le(v) == u64_le(v) \o <<0, 0, 0, 0, 0, 0, 0, 0>>

\* f32_le with the bytes in big-endian order.
f32_be(x) ==
    <<x.s * 128 + (x.e \div 2), (x.e % 2) * 128 + (x.f \div 65536),
      (x.f \div 256) % 256, x.f % 256>>

\* f32::to_le_bytes of the bit pattern s:1 e:8 f:23.
f32_le(x) ==
    <<x.f % 256, (x.f \div 256) % 256, (x.e % 2) * 128 + (x.f \div 65536),
      x.s * 128 + (x.e \div 2)>>

\* Reading at byte offset off (from 0).
u16_at(b, off) == b[off + 1] + 256 * b[off + 2]

u32_at(b, off) ==
    b[off + 1] + 256 * b[off + 2] + 65536 * b[off + 3] + 16777216 * b[off + 4]

u64_at(b, off) == u32_at(b, off)

f32_at(b, off) ==
    F32(b[off + 4] \div 128,
        (b[off + 4] % 128) * 2 + (b[off + 3] \div 128),
        (b[off + 3] % 128) * 65536 + b[off + 2] * 256 + b[off + 1])

Vector3_le(v) == f32_le(v.x) \o f32_le(v.y) \o f32_le(v.z)

Vector4_le(v) == f32_le(v.x) \o f32_le(v.y) \o f32_le(v.z) \o f32_le(v.w)

Vector3_at(b, off) ==
    Vector3(f32_at(b, off), f32_at(b, off + 4), f32_at(b, off + 8))

Vector4_at(b, off) ==
    Vector4(f32_at(b, off), f32_at(b, off + 4), f32_at(b, off + 8),
            f32_at(b, off + 12))

\* The record of one frame value, in the field order of its struct.
value_le(k, v) ==
    CASE k = "Transform" ->
             Vector3_le(v.scale) \o Vector4_le(v.rotation)
             \o Vector3_le(v.translation) \o u32_le(v.compensate_scale)
      [] k = "UvTransform" ->
             f32_le(v.scale_u) \o f32_le(v.scale_v) \o f32_le(v.rotation)
             \o f32_le(v.translate_u) \o f32_le(v.translate_v)
      [] k = "Float" -> f32_le(v)
      [] k = "PatternIndex" -> u32_le(v)
      [] k = "Boolean" -> <<v>>
      [] k = "Vector4" -> Vector4_le(v)

value_at(k, b, off) ==
    CASE k = "Transform" ->
             UncompressedTransform(Vector3_at(b, off), Vector4_at(b, off + 12),
                                   Vector3_at(b, off + 28), u32_at(b, off + 40))
      [] k = "UvTransform" ->
             UvTransform(f32_at(b, off), f32_at(b, off + 4), f32_at(b, off + 8),
                         f32_at(b, off + 12), f32_at(b, off + 16))
      [] k = "Float" -> f32_at(b, off)
      [] k = "PatternIndex" -> u32_at(b, off)
      [] k = "Boolean" -> b[off + 1]
      [] k = "Vector4" -> Vector4_at(b, off)

\* SsbhWrite::size_in_bytes of a frame value.
size_in_bytes(k) ==
    CASE k = "Transform" -> 44
      [] k = "UvTransform" -> 20
      [] k = "Float" -> 4
      [] k = "PatternIndex" -> 4
      [] k = "Boolean" -> 1
      [] k = "Vector4" -> 16

F32Compression_le(c) == f32_le(c.min) \o f32_le(c.max) \o u64_le(c.bit_count)

F32Compression_at(b, off) ==
    F32Compression(f32_at(b, off), f32_at(b, off + 4), u64_at(b, off + 8))

Vector3Compression_le(c) ==
    F32Compression_le(c.x) \o F32Compression_le(c.y) \o F32Compression_le(c.z)

Vector3Compression_at(b, off) ==
    Vector3(F32Compression_at(b, off), F32Compression_at(b, off + 16),
            F32Compression_at(b, off + 32))

compression_le(k, c) ==
    CASE k = "Transform" ->
             Vector3Compression_le(c.scale) \o Vector3Compression_le(c.rotation)
             \o Vector3Compression_le(c.translation)
      [] k = "UvTransform" ->
             F32Compression_le(c.scale_u) \o F32Compression_le(c.scale_v)
             \o F32Compression_le(c.rotation)
             \o F32Compression_le(c.translate_u)
             \o F32Compression_le(c.translate_v)
      [] k = "Float" -> F32Compression_le(c)
      [] k = "PatternIndex" ->
             u32_le(c.min) \o u32_le(c.max) \o u64_le(c.bit_count)
      [] k = "Boolean" -> u128_le(c)
      [] k = "Vector4" ->
             Vector3Compression_le(xyz(c)) \o F32Compression_le(c.w)

compression_at(k, b, off) ==
    CASE k = "Transform" ->
             [scale |-> Vector3Compression_at(b, off),
              rotation |-> Vector3Compression_at(b, off + 48),
              translation |-> Vector3Compression_at(b, off + 96)]
      [] k = "UvTransform" ->
             [scale_u |-> F32Compression_at(b, off),
              scale_v |-> F32Compression_at(b, off + 16),
              rotation |-> F32Compression_at(b, off + 32),
              translate_u |-> F32Compression_at(b, off + 48),
              translate_v |-> F32Compression_at(b, off + 64)]
      [] k = "Float" -> F32Compression_at(b, off)
      [] k = "PatternIndex" ->
             [min |-> u32_at(b, off), max |-> u32_at(b, off + 4),
              bit_count |-> u64_at(b, off + 8)]
      [] k = "Boolean" -> u64_at(b, off)
      [] k = "Vector4" ->
             Vector4(F32Compression_at(b, off), F32Compression_at(b, off + 16),
                     F32Compression_at(b, off + 32),
                     F32Compression_at(b, off + 48))

compression_size(k) ==
    CASE k = "Transform" -> 144
      [] k = "UvTransform" -> 80
      [] k = "Vector4" -> 64
      [] OTHER -> 16

HeaderSize == 16

\* The header fields in struct order; the two pointers are given as offsets.
CompressedHeader_le(h, default_ptr, compressed_ptr) ==
    u16_le(h.unk_4) \o u16_le(h.flags) \o u16_le(default_ptr)
    \o u16_le(h.bits_per_entry) \o u32_le(compressed_ptr)
    \o u32_le(h.frame_count)

\* The track data laid out as header, descriptor c, default value d and bit
\* buffer, the two pointers holding the offsets of the last two.
CompressedTrackData_layout(header, c, d) ==
    CompressedHeader_le(header,
        IF header.default_data.some THEN HeaderSize + Len(c) ELSE 0,
        IF header.compressed_data.some THEN HeaderSize + Len(c) + Len(d)
        ELSE 0)
    \o c \o d
    \o (IF header.compressed_data.some THEN header.compressed_data.v ELSE <<>>)

\* SsbhWrite of the track data.
CompressedTrackData_write(k, data) ==
    CompressedTrackData_layout(data.header, compression_le(k, data.compression),
        IF data.header.default_data.some
        THEN value_le(k, data.header.default_data.v) ELSE <<>>)

\* BinRead of the track data: [ok, data]; a pointer of 0 reads as None, the
\* bit buffer runs from its pointer to the end of the track.
CompressedTrackData_read(k, b) ==
    IF Len(b) < HeaderSize + compression_size(k) THEN [ok |-> FALSE]
    ELSE LET default_ptr == u16_at(b, 4)
             compressed_ptr == u32_at(b, 8)
         IN  IF default_ptr # 0 /\ default_ptr + size_in_bytes(k) > Len(b)
             THEN [ok |-> FALSE]
             ELSE [ok |-> TRUE,
                   data |-> CompressedTrackData(
                       CompressedHeader(
                           u16_at(b, 0), u16_at(b, 2),
                           IF default_ptr = 0 THEN None
                           ELSE Some(value_at(k, b, default_ptr)),
                           u16_at(b, 6),
                           IF compressed_ptr = 0 THEN None
                           ELSE Some(SubSeq(b, compressed_ptr + 1, Len(b))),
                           u32_at(b, 12)),
                       compression_at(k, b, HeaderSize))]

(***************************************************************************)
(* TrackValues::write and read_track_values                                *)
(***************************************************************************)
CompressionTypes == {"Direct", "Constant", "ConstTransform", "Compressed"}

IsUniform3(v) == FEq(v.x, v.y) /\ FEq(v.y, v.z)

\* CompressionFlags::from_track
from_track(k, vs) ==
    CASE k = "Transform" ->
             (IF \A i \in 1..Len(vs) : IsUniform3(vs[i].scale)
              THEN UniformScale ELSE Scale) + 4 + 8
      [] k = "UvTransform" ->
             (IF \A i \in 1..Len(vs) : FEq(vs[i].scale_u, vs[i].scale_v)
              THEN UniformScale ELSE Scale) + 4 + 8
      [] OTHER -> 0

from_transform(t, cs) ==
    UncompressedTransform(t.scale, t.rotation, t.translation,
                          IF cs THEN 1 ELSE 0)

\* impl From<&bool> for Boolean
Boolean_from(v) == IF v THEN 1 ELSE 0

\* The values as the element type that is written.
WireValues(k, vs, cs) ==
    CASE k = "Transform" -> [i \in 1..Len(vs) |-> from_transform(vs[i], cs)]
      [] k = "Boolean" -> [i \in 1..Len(vs) |-> Boolean_from(vs[i])]
      [] OTHER -> vs

\* write_compressed, one step per definition: dc is <<default, compression>>,
\* compressed_data the bit buffer.  The result is [ok, data, bytes]: ok is
\* FALSE when the writer panicked.
write_track_data(k, data, ok) ==
    [ok |-> ok, data |-> Some(data),
     bytes |-> IF ok THEN CompressedTrackData_write(k, data) ELSE <<>>]

\* write_compressed_data with bits_per_entry holding the bits of all frames.
write_compressed_data_total_bits(k, vs, flags, dc, compressed_data) ==
    write_track_data(k,
        CompressedTrackData(
            CompressedHeader(4, flags, Some(dc[1]),
                             (Len(vs) * bit_count(k, dc[2], flags)) % 65536,
                             Some(compressed_data.bytes), Len(vs)),
            dc[2]),
        compressed_data.ok)

write_compressed_data(k, vs, flags, dc, compressed_data) ==
    write_track_data(k,
        CompressedTrackData(
            CompressedHeader(4, flags, Some(dc[1]),
                             bit_count(k, dc[2], flags) % 65536,
                             Some(compressed_data.bytes), Len(vs)),
            dc[2]),
        compressed_data.ok)

write_compressed_values(k, vs, flags, dc) ==
    write_compressed_data(k, vs, flags, dc,
                          create_compressed_buffer(k, vs, dc[2], flags))

write_compressed(k, vs, flags, cs) ==
    write_compressed_values(k, vs, flags,
                            get_default_and_compression(k, vs, cs))

RECURSIVE Concat(_)
Concat(seqs) == IF seqs = <<>> THEN <<>> ELSE seqs[1] \o Concat(Tail(seqs))

\* Vec<T>::write of uncompressed frames.
write_uncompressed(k, vs) ==
    Concat([i \in 1..Len(vs) |-> value_le(k, vs[i])])

\* TrackValues::write taking the flags from the first frame alone.
TrackValues_write_first_frame(k, vs, compression, cs) ==
    IF compression = "Compressed"
    THEN write_compressed(k, WireValues(k, vs, cs),
                          from_track(k, SubSeq(vs, 1, IntMin(1, Len(vs)))), cs)
    ELSE [ok |-> TRUE, data |-> None,
          bytes |-> write_uncompressed(k, WireValues(k, vs, cs))]

TrackValues_write(k, vs, compression, cs) ==
    IF compression = "Compressed"
    THEN write_compressed(k, WireValues(k, vs, cs), from_track(k, vs), cs)
    ELSE [ok |-> TRUE, data |-> None,
          bytes |-> write_uncompressed(k, WireValues(k, vs, cs))]

\* [ok, values]: ok is FALSE when the bytes end before count records.
read_uncompressed(k, b, count) ==
    IF count * size_in_bytes(k) > Len(b) THEN [ok |-> FALSE]
    ELSE [ok |-> TRUE,
          values |-> [i \in 1..count |->
                         value_at(k, b, (i - 1) * size_in_bytes(k))]]

\* The element values of an uncompressed track as TrackValues.
TrackValues_from_uncompressed(k, r) ==
    IF ~r.ok THEN Error("Io")
    ELSE TrackValues_from(k, [status |-> "Ok", values |-> r.values],
             k = "Transform" /\ r.values # <<>>
             /\ r.values[1].compensate_scale # 0)

read_parsed(k, parsed, count) ==
    IF ~parsed.ok THEN Error("Io")
    ELSE read_track_values_compressed(k, parsed.data, count)

read_track_values(b, k, compression, count) ==
    IF compression = "Compressed"
    THEN read_parsed(k, CompressedTrackData_read(k, b), count)
    ELSE TrackValues_from_uncompressed(k, read_uncompressed(k, b, count))

(***************************************************************************)
(* Adjacency data: conversions between Adj and AdjData                     *)
(***************************************************************************)
\* A usize of 64 bits as its upper and lower 32 bits.
USize(hi, lo) == [hi |-> hi, lo |-> lo]

\* x as u32, for a usize x: the lower 32 bits.
usize_as_u32(x) == x.lo

\* x as usize, for a u32 x.
u32_as_usize(x) == USize(0, x)

AdjEntry(mesh_object_index, index_buffer_offset) ==
    [mesh_object_index |-> mesh_object_index,
     index_buffer_offset |-> index_buffer_offset]

AdjEntryData(mesh_object_index, vertex_adjacency) ==
    [mesh_object_index |-> mesh_object_index,
     vertex_adjacency |-> vertex_adjacency]

Adj(entries, index_buffer) ==
    [entries |-> entries, index_buffer |-> index_buffer]

AdjData(entries) == [entries |-> entries]

\* std::mem::size_of::<i16>()
SizeOfI16 == 2

\* The scan of Adj::try_from: the entries from entry i on, offset being the
\* bytes of adjacency data before entry i.  The offset is a count of bytes
\* held in memory and stays below 2^32, so "as u32" keeps it.
RECURSIVE ScanEntries(_, _, _, _)
ScanEntries(es, i, offset, acc) ==
    IF i > Len(es) THEN acc
    ELSE ScanEntries(es, i + 1,
                     offset + Len(es[i].vertex_adjacency) * SizeOfI16,
                     Append(acc, AdjEntry(usize_as_u32(es[i].mesh_object_index),
                                          offset)))

\* flat_map(|e| e.vertex_adjacency.clone()) from entry i on.
RECURSIVE FlatMapAdjacency(_, _)
FlatMapAdjacency(es, i) ==
    IF i > Len(es) THEN <<>>
    ELSE es[i].vertex_adjacency \o FlatMapAdjacency(es, i + 1)

\* ScanEntries adding the number of values, not of bytes, to the offset.
Adj_entries_offsets_in_values(es) ==
    [i \in 1..Len(es) |->
        AdjEntry(usize_as_u32(es[i].mesh_object_index),
                 Len(FlatMapAdjacency(SubSeq(es, 1, i - 1), 1)))]

Adj_entries(es) == ScanEntries(es, 1, 0, <<>>)

\* impl TryFrom<&AdjData> for Adj; it never fails.
Adj_try_from(data) ==
    Adj(Adj_entries(data.entries), FlatMapAdjacency(data.entries, 1))

\* offset_to_index taking the byte offset for the index.
offset_as_index(x) == x

offset_to_index(x) == x \div SizeOfI16

BufferOffsetOutOfRange(start, end, buffer_size) ==
    [ok |-> FALSE, error |-> "BufferOffsetOutOfRange", start |-> start,
     end |-> end, buffer_size |-> buffer_size]

AdjOk(v) == [ok |-> TRUE, v |-> v]

\* The loop of AdjData::try_from from entry i on: an entry before the last
\* takes index_buffer.get(start..end) up to the next entry's offset, the
\* last one index_buffer.get(start..); get gives None for a range that is
\* reversed or passes the end of the buffer, which ends the conversion.
RECURSIVE AdjDataEntries(_, _, _)
AdjDataEntries(adj, i, acc) ==
    IF i > Len(adj.entries) THEN AdjOk(AdjData(acc))
    ELSE IF i < Len(adj.entries)
         THEN IF /\ offset_to_index(adj.entries[i].index_buffer_offset)
                        <= offset_to_index(adj.entries[i + 1].index_buffer_offset)
                 /\ offset_to_index(adj.entries[i + 1].index_buffer_offset)
                        <= Len(adj.index_buffer)
              THEN AdjDataEntries(adj, i + 1,
                       Append(acc, AdjEntryData(
                           u32_as_usize(adj.entries[i].mesh_object_index),
                           SubSeq(adj.index_buffer,
                                  offset_to_index(
                                      adj.entries[i].index_buffer_offset) + 1,
                                  offset_to_index(
                                      adj.entries[i + 1].index_buffer_offset)))))
              ELSE BufferOffsetOutOfRange(
                       adj.entries[i].index_buffer_offset,
                       adj.entries[i + 1].index_buffer_offset,
                       Len(adj.index_buffer) * SizeOfI16)
    ELSE IF offset_to_index(adj.entries[i].index_buffer_offset)
                <= Len(adj.index_buffer)
         THEN AdjDataEntries(adj, i + 1,
                  Append(acc, AdjEntryData(
                      u32_as_usize(adj.entries[i].mesh_object_index),
                      SubSeq(adj.index_buffer,
                             offset_to_index(
                                 adj.entries[i].index_buffer_offset) + 1,
                             Len(adj.index_buffer)))))
    ELSE BufferOffsetOutOfRange(adj.entries[i].index_buffer_offset,
                                Len(adj.index_buffer) * SizeOfI16,
                                Len(adj.index_buffer) * SizeOfI16)

\* impl TryFrom<&Adj> for AdjData
AdjData_try_from(adj) == AdjDataEntries(adj, 1, <<>>)

(***************************************************************************)
(* triangle_adjacency                                                      *)
(***************************************************************************)
\* `v as i16` for a u32 v
u32_as_i16(v) ==
    IF v % 65536 >= 32768 THEN (v % 65536) - 65536 ELSE v % 65536

\* slice.chunks_exact(n): the whole chunks, the remainder is left out.
chunks_exact(xs, n) ==
    [k \in 1..(Len(xs) \div n) |-> SubSeq(xs, n * (k - 1) + 1, n * k)]

\* adjacent_vertices[v as usize].push(x as i16); .push(y as i16)
push_adjacent(adjacent_vertices, v, x, y) ==
    [adjacent_vertices EXCEPT
        ![v + 1] = @ \o <<u32_as_i16(x), u32_as_i16(y)>>]

\* The loop over the faces from face k on: [ok, v], ok is FALSE when an
\* index is out of bounds, which panics.
RECURSIVE push_faces(_, _, _)
push_faces(adjacent_vertices, faces, k) ==
    IF k > Len(faces) THEN [ok |-> TRUE, v |-> adjacent_vertices]
    ELSE IF \E c \in 1..3 : faces[k][c] >= Len(adjacent_vertices)
         THEN [ok |-> FALSE, v |-> <<>>]
    ELSE push_faces(
             push_adjacent(
                 push_adjacent(
                     push_adjacent(adjacent_vertices,
                                   faces[k][1], faces[k][2], faces[k][3]),
                     faces[k][2], faces[k][3], faces[k][1]),
                 faces[k][3], faces[k][1], faces[k][2]),
             faces, k + 1)

\* adjacent_vertices_with_seams[i] from position j on: the lists of the
\* vertices whose position == that of vertex i (PartialEq of f32).
RECURSIVE extend_duplicates(_, _, _, _)
extend_duplicates(adjacent_vertices, vertex_positions, i, j) ==
    IF j > Len(vertex_positions) THEN <<>>
    ELSE (IF FEq(vertex_positions[j], vertex_positions[i])
          THEN adjacent_vertices[j] ELSE <<>>)
         \o extend_duplicates(adjacent_vertices, vertex_positions, i, j + 1)

\* Vec::resize(n, x)
resize(a, n, x) == [k \in 1..n |-> IF k <= Len(a) THEN a[k] ELSE x]

\* flat_map of the resized lists
flat_map_resize(lists, padding_size) ==
    [m \in 1..(Len(lists) * padding_size) |->
        resize(lists[((m - 1) \div padding_size) + 1], padding_size, -1)
            [((m - 1) % padding_size) + 1]]

\* The lists with seams when the face loop did not panic.
with_seams(r, vertex_positions, padding_size) ==
    IF ~r.ok THEN r
    ELSE [ok |-> TRUE,
          v |-> flat_map_resize(
                    [i \in 1..Len(vertex_positions) |->
                        extend_duplicates(r.v, vertex_positions, i, 1)],
                    padding_size)]

triangle_adjacency(indices, positions, padding) ==
    with_seams(push_faces([i \in 1..Len(positions) |-> <<>>],
                          chunks_exact(indices, 3), 1),
               positions, padding)

(***************************************************************************)
(* SsbhWrite: writing values behind a shared data pointer                  *)
(***************************************************************************)
\* Values that implement SsbhWrite: integers of one and two bytes, (),
\* Option<T> and Vec<T>.
U8(n) == [ty |-> "u8", n |-> n]

U16(n) == [ty |-> "u16", n |-> n]

Unit == [ty |-> "unit"]

OptNone == [ty |-> "none"]

OptSome(x) == [ty |-> "some", some |-> x]

Vec(xs) == [ty |-> "vec", items |-> xs]

\* SsbhWrite::size_in_bytes
RECURSIVE ssbh_size_in_bytes(_)
ssbh_size_in_bytes(x) ==
    CASE x.ty = "u8" -> 1
      [] x.ty = "u16" -> 2
      [] x.ty = "unit" -> 0
      [] x.ty = "none" -> 0
      [] x.ty = "some" -> ssbh_size_in_bytes(x.some)
      [] x.ty = "vec" ->
             IF x.items = <<>> THEN 0
             ELSE Len(x.items) * ssbh_size_in_bytes(x.items[1])

\* A writer and the data pointer: w is [bytes, data_ptr]; the cursor stands
\* at the end of the bytes.
stream_position(w) == Len(w.bytes)

\* *data_ptr = current_pos + size, whatever it was.
set_data_ptr(w, size) ==
    [w EXCEPT !.data_ptr = stream_position(w) + size]

\* if *data_ptr < current_pos + size { *data_ptr = current_pos + size }
advance_data_ptr(w, size) ==
    IF w.data_ptr < stream_position(w) + size
    THEN [w EXCEPT !.data_ptr = stream_position(w) + size]
    ELSE w

\* writer.write_all(&self.to_le_bytes())
write_le_bytes(w, x) ==
    [w EXCEPT !.bytes = w.bytes \o (IF x.ty = "u8" THEN <<x.n>>
                                    ELSE <<x.n % 256, x.n \div 256>>)]

\* SsbhWrite::ssbh_write by type; write_elements is the loop over a slice.
RECURSIVE ssbh_write(_, _)
RECURSIVE write_elements(_, _, _)
write_elements(w, xs, i) ==
    IF i > Len(xs) THEN w
    ELSE write_elements(ssbh_write(w, xs[i]), xs, i + 1)

ssbh_write(w, x) ==
    CASE x.ty \in {"u8", "u16"} -> write_le_bytes(w, x)
      [] x.ty \in {"unit", "none"} -> w
      [] x.ty = "some" ->
             ssbh_write(advance_data_ptr(w, ssbh_size_in_bytes(x)), x.some)
      [] x.ty = "vec" ->
             write_elements(advance_data_ptr(w, ssbh_size_in_bytes(x)),
                            x.items, 1)

(***************************************************************************)
(* State                                                                   *)
(***************************************************************************)
VARIABLES
    pc,                \* position: "start", "written", "parsed", "read", "done"
    kind,              \* the track type (TrackTypeV2 / TrackValues variant)
    values,            \* the frames given to TrackValues::write
    compression_type,  \* the CompressionType given to write and read
    compensate_scale,  \* the flag given to TrackValues::write
    track_data,        \* the CompressedTrackData written or about to be read
    writer,            \* the bytes in the writer's cursor
    frame_count,       \* the count given to read_track_values
    result,            \* what read_track_values returned
    writer2,           \* the bytes of writing the decoded values again
    adj_data,          \* the AdjData at hand
    adj,               \* the Adj at hand
    adj_result,        \* what the conversion back returned
    data_ptr,          \* the data pointer shared by the ssbh_write calls
    value,             \* the value last given to ssbh_write
    descriptor,        \* the F32Compression given to compress_f32 / decompress_f32
    quantized,         \* the CompressedBits at hand
    float,             \* the f32 at hand
    vertex_indices,    \* the arguments of triangle_adjacency ..
    vertex_positions,
    padding_size,
    vertex_adjacency   \* .. and what it returned

codec_vars ==
    <<kind, values, compression_type, compensate_scale, track_data, writer,
      frame_count, result, writer2>>

adj_vars == <<adj_data, adj, adj_result>>

ssbh_vars == <<data_ptr, value>>

f32_vars == <<descriptor, quantized, float>>

triangle_vars ==
    <<vertex_indices, vertex_positions, padding_size, vertex_adjacency>>

vars == <<pc, codec_vars, adj_vars, ssbh_vars, f32_vars, triangle_vars>>

\* The variables the track codec leaves alone, and those the adjacency
\* conversions leave alone.
non_codec_vars == <<adj_vars, ssbh_vars, f32_vars, triangle_vars>>

non_adj_vars == <<codec_vars, ssbh_vars, f32_vars, triangle_vars>>

\* No adjacency data is at hand; no ssbh_write call was made.
NoAdj == adj_data = None /\ adj = None /\ adj_result = None

NoSsbh == data_ptr = 0 /\ value = None

\* No f32 is being quantized; triangle_adjacency was not called.
NoF32 == descriptor = None /\ quantized = None /\ float = None

NoTriangles ==
    /\ vertex_indices = <<>>
    /\ vertex_positions = <<>>
    /\ padding_size = 0
    /\ vertex_adjacency = None

NoResult == [status |-> "None", values |-> <<>>]

(***************************************************************************)
(* Inputs of the reader: track data as found in a file                     *)
(***************************************************************************)
\* Largest frame count tried besides LargeCount.
MaxCount == 2

\* A frame count beyond what any buffer tried holds.
LargeCount == 17

FHalf == F32(0, 126, 0)

FTwo == F32(0, 128, 0)

FThree == F32(0, 128, 4194304)

FMinusOne == F32(1, 127, 0)

\* 0.4
FPointFour == F32(0, 125, 5033165)

\* Component descriptors: no bits; one and two bits; min == max with a
\* nonzero bit count.
D0 == F32Compression(FZero, FZero, 0)

D1 == F32Compression(FZero, FOne, 1)

D2 == F32Compression(FMinusOne, FTwo, 2)

DEq == F32Compression(FPointFour, FPointFour, 2)

\* The descriptor of read_compressed_float_all_equal.
D16 == F32Compression(FPointFour, FPointFour, 16)

\* Two bits over [-1, 1]: the grid points -1/3 and 1/3 are not exact in f32.
DSym == F32Compression(FMinusOne, FOne, 2)

V3Same(d) == Vector3(d, d, d)

ReadCompressions(k) ==
    CASE k = "Transform" ->
             { [scale |-> s, rotation |-> r, translation |-> t] :
                 s \in {V3Same(D0), V3Same(D1), Vector3(D2, D0, DEq)},
                 r \in {V3Same(D0), Vector3(D1, D0, D2), Vector3(DSym, D0, D0)},
                 t \in {V3Same(D0), Vector3(D0, D1, D0)} }
      [] k = "UvTransform" ->
             { [scale_u |-> su, scale_v |-> sv, rotation |-> r,
                translate_u |-> D0, translate_v |-> tv] :
                 su \in {D0, D1}, sv \in {D0, D2}, r \in {D0, DEq},
                 tv \in {D0, D1} }
      [] k = "Float" -> {D0, D1, D2, DEq, D16}
      [] k = "PatternIndex" ->
             { [min |-> 0, max |-> 0, bit_count |-> 0],
               [min |-> 1, max |-> 2, bit_count |-> 1],
               [min |-> 5, max |-> 5, bit_count |-> 0],
               [min |-> 3, max |-> 9, bit_count |-> 3] }
      [] k = "Boolean" -> {0}
      [] k = "Vector4" ->
             { Vector4(D0, D0, D0, D0), Vector4(D1, D0, D2, D0),
               Vector4(D0, DEq, D0, D1) }

ReadDefaults(k) ==
    CASE k = "Transform" ->
             { UncompressedTransform(Vector3(FOne, FOne, FOne),
                                     Vector4(FZero, FZero, FZero, FOne),
                                     Vector3(FTwo, FZero, FZero), 0),
               UncompressedTransform(Vector3(FTwo, FThree, FHalf),
                                     Vector4(FHalf, FHalf, FHalf, FMinusOne),
                                     Vector3(FZero, FOne, FMinusOne), 1) }
      [] k = "UvTransform" ->
             { UvTransform(FOne, FTwo, FZero, FHalf, FMinusOne) }
      [] k = "Float" -> {FPointFour, FZero}
      [] k = "PatternIndex" -> {0, 7}
      [] k = "Boolean" -> {0, 1}
      [] k = "Vector4" -> { Vector4(FOne, FTwo, FThree, FPointFour) }

\* Header flags tried: every combination of the four named bits, and values
\* with reserved bits set.
ReadFlags(k) ==
    IF k \in {"Transform", "UvTransform"}
    THEN 0..15 \cup {18, 271, 65527}
    ELSE {0, 15, 65520}

ReadBuffers == {<<>>, <<6>>, <<228, 3>>}

ReadCounts == 0..MaxCount \cup {LargeCount}

ReadBitsPerEntry(k, c, flags) ==
    {0, 1, bit_count(k, c, flags), bit_count(k, c, flags) + 1}

InitRead ==
    /\ NoAdj
    /\ NoSsbh
    /\ NoF32
    /\ NoTriangles
    /\ pc = "parsed"
    /\ kind \in Kinds
    /\ values = <<>>
    /\ compression_type = "Compressed"
    /\ compensate_scale = FALSE
    /\ writer = <<>>
    /\ writer2 = <<>>
    /\ result = NoResult
    /\ frame_count \in ReadCounts
    /\ \E c \in ReadCompressions(kind), flags \in ReadFlags(kind),
          dd \in {None} \cup {Some(d) : d \in ReadDefaults(kind)},
          cd \in {None} \cup {Some(b) : b \in ReadBuffers} :
          \E bpe \in ReadBitsPerEntry(kind, c, flags) :
             track_data = CompressedTrackData(
                 CompressedHeader(4, flags, dd, bpe, cd, frame_count), c)

\* read_track_values on a compressed track.
ReadCompressed ==
    /\ pc = "parsed"
    /\ result' = read_track_values_compressed(kind, track_data, frame_count)
    /\ pc' = "done"
    /\ UNCHANGED <<kind, values, compression_type, compensate_scale,
                   track_data, writer, frame_count, writer2>>
    /\ UNCHANGED non_codec_vars

NextRead == ReadCompressed

SpecRead == InitRead /\ [][NextRead]_vars


(***************************************************************************)
(* Inputs of the writer: the frames of a track                             *)
(***************************************************************************)
\* Most frames in a track that is written.
MaxFrames == 3

\* Most frames in a Boolean track that is written.
MaxBools == 9

FMinusZero == F32(1, 0, 0)

FFour == F32(0, 129, 0)

FFive == F32(0, 129, 2097152)

FloatFrames ==
    {FMinusOne, FMinusZero, FPointFour, FHalf, FOne, FTwo, FThree, FNaN}

Vector4Frames ==
    { Vector4(FZero, FZero, FZero, FOne),
      Vector4(FOne, FTwo, FThree, FPointFour),
      Vector4(FHalf, FHalf, FHalf, FMinusOne) }

\* The frames of write_compressed_uv_transform_multiple_frames_uniform_scale,
\* a third frame of uniform scale and one of non-uniform scale.
UvTransformFrames ==
    { UvTransform(FMinusOne, FMinusOne, FNeg(FThree), FNeg(FFour), FNeg(FFive)),
      UvTransform(FTwo, FTwo, FThree, FFour, FFive),
      UvTransform(FOne, FOne, FZero, FHalf, FMinusOne),
      UvTransform(FOne, FTwo, FZero, FHalf, FMinusOne) }

\* Unit scale; a uniform scale with a negative w; a non-uniform scale.
TransformFrames ==
    { Transform(Vector3(FOne, FOne, FOne), Vector4(FZero, FZero, FZero, FOne),
                Vector3(FTwo, FZero, FZero)),
      Transform(Vector3(FTwo, FTwo, FTwo),
                Vector4(FHalf, FHalf, FHalf, FNeg(FHalf)),
                Vector3(FZero, FOne, FMinusOne)),
      Transform(Vector3(FTwo, FThree, FHalf), Vector4(FOne, FZero, FZero, FZero),
                Vector3(FZero, FZero, FZero)) }

\* 16777221 = 2^24 + 5 is further from 0 than 24 bits reach.
PatternIndexFrames == {0, 1, 2, 7, 300, 16777221}

Frames(k) ==
    CASE k = "Transform" -> TransformFrames
      [] k = "UvTransform" -> UvTransformFrames
      [] k = "Float" -> FloatFrames
      [] k = "PatternIndex" -> PatternIndexFrames
      [] k = "Boolean" -> BOOLEAN
      [] k = "Vector4" -> Vector4Frames

MaxLen(k) == IF k = "Boolean" THEN MaxBools ELSE MaxFrames

SeqsUpTo(S, n) == UNION { [1..m -> S] : m \in 0..n }

(***************************************************************************)
(* The codec: write a track, read it back, write what was read             *)
(***************************************************************************)
Init ==
    /\ NoAdj
    /\ NoSsbh
    /\ NoF32
    /\ NoTriangles
    /\ pc = "start"
    /\ kind \in Kinds
    /\ values \in SeqsUpTo(Frames(kind), MaxLen(kind))
    /\ compression_type \in CompressionTypes
    /\ compensate_scale \in BOOLEAN
    /\ track_data = None
    /\ writer = <<>>
    /\ frame_count = Len(values)
    /\ result = NoResult
    /\ writer2 = <<>>

\* TrackValues::write into an empty cursor.
Write ==
    /\ pc = "start"
    /\ \E w \in {TrackValues_write(kind, values, compression_type,
                                   compensate_scale)} :
           /\ pc' = IF w.ok THEN "written" ELSE "panic"
           /\ writer' = w.bytes
           /\ track_data' = w.data
    /\ UNCHANGED <<kind, values, compression_type, compensate_scale,
                   frame_count, result, writer2>>
    /\ UNCHANGED non_codec_vars

\* read_track_values on the bytes written, with the count of frames written.
Read ==
    /\ pc = "written"
    /\ result' = read_track_values(writer, kind, compression_type, frame_count)
    /\ pc' = "read"
    /\ UNCHANGED <<kind, values, compression_type, compensate_scale,
                   track_data, writer, frame_count, writer2>>
    /\ UNCHANGED non_codec_vars

\* TrackValues::write of the values read, with the same compensate_scale.
Rewrite ==
    /\ pc = "read"
    /\ result.status = "Ok"
    /\ \E w \in {TrackValues_write(kind, result.values, compression_type,
                                   compensate_scale)} :
           /\ pc' = IF w.ok THEN "done" ELSE "panic"
           /\ writer2' = w.bytes
    /\ UNCHANGED <<kind, values, compression_type, compensate_scale,
                   track_data, writer, frame_count, result>>
    /\ UNCHANGED non_codec_vars

Next == Write \/ Read \/ Rewrite

Spec == Init /\ [][Next]_vars


(***************************************************************************)
(* Compressing frames with a given descriptor and given flags, and         *)
(* decompressing the buffer                                                *)
(***************************************************************************)
\* Most frames that are compressed with a given descriptor.
MaxCompressFrames == 2

\* A rotation whose w is -0.0 besides the frames of the writer.
CompressTransformFrames ==
    TransformFrames
    \cup { Transform(Vector3(FOne, FOne, FOne),
                     Vector4(FZero, FOne, FZero, FMinusZero),
                     Vector3(FOne, FTwo, FHalf)) }

CompressFrames(k) ==
    CASE k = "Transform" -> CompressTransformFrames
      [] k = "Float" -> FloatFrames
      [] k = "PatternIndex" -> PatternIndexFrames

\* A bit count no u32 store holds.
D33 == F32Compression(FZero, FOne, 33)

TransformSame(d) ==
    [scale |-> V3Same(d), rotation |-> V3Same(d), translation |-> V3Same(d)]

\* The descriptors tried besides the one get_default_and_compression
\* gives: narrow ranges that leave some frames outside, bit counts of 1, 2, 3
\* and 33, min == max with a nonzero bit count.
CompressCompressions(k) ==
    CASE k = "Transform" -> {TransformSame(D2)}
      [] k = "Float" -> {D1, D2, DEq, D33}
      [] k = "PatternIndex" ->
             { [min |-> 0, max |-> 7, bit_count |-> 3],
               [min |-> 0, max |-> 7, bit_count |-> 33] }

CompressFlagValues(k) == IF k = "Transform" THEN 0..15 \cup {18, 271} ELSE {0}

InitCompress ==
    /\ NoAdj
    /\ NoSsbh
    /\ NoF32
    /\ NoTriangles
    /\ pc = "start"
    /\ kind \in {"Transform", "Float", "PatternIndex"}
    /\ values \in SeqsUpTo(CompressFrames(kind), MaxCompressFrames)
    /\ values # <<>>
    /\ compression_type = "Compressed"
    /\ compensate_scale = FALSE
    /\ writer = <<>>
    /\ writer2 = <<>>
    /\ result = NoResult
    /\ frame_count = Len(values)
    /\ \E dc \in {get_default_and_compression(
                       kind, WireValues(kind, values, FALSE), FALSE)} :
          \E c \in {dc[2]} \cup CompressCompressions(kind),
             flags \in CompressFlagValues(kind) :
             track_data = CompressedTrackData(
                 CompressedHeader(4, flags, Some(dc[1]), 0, None,
                                  Len(values)), c)

\* write_compressed after its first line: the frames are compressed with the
\* descriptor and the flags of track_data into a buffer of
\* len * bit_count bits, and the header takes bits_per_entry and the buffer.
CompressValues ==
    /\ pc = "start"
    /\ \E w \in {write_compressed_values(
                      kind, WireValues(kind, values, compensate_scale),
                      track_data.header.flags,
                      <<track_data.header.default_data.v,
                        track_data.compression>>)} :
           /\ pc' = IF w.ok THEN "compressed" ELSE "panic"
           /\ writer' = w.bytes
           /\ track_data' = w.data.v
    /\ UNCHANGED <<kind, values, compression_type, compensate_scale,
                   frame_count, result, writer2>>
    /\ UNCHANGED non_codec_vars

\* read_compressed of the track data just written.
DecompressValues ==
    /\ pc = "compressed"
    /\ result' = read_track_values_compressed(kind, track_data, frame_count)
    /\ pc' = "done"
    /\ UNCHANGED <<kind, values, compression_type, compensate_scale,
                   track_data, writer, frame_count, writer2>>
    /\ UNCHANGED non_codec_vars

NextCompress == CompressValues \/ DecompressValues

SpecCompress == InitCompress /\ [][NextCompress]_vars


(***************************************************************************)
(* Converting adjacency data to an Adj and back, and an Adj to adjacency   *)
(* data and back                                                           *)
(***************************************************************************)
\* Most entries of an AdjData or Adj.
MaxAdjEntries == 2

\* Most values in the vertex_adjacency of an entry.
MaxAdjacency == 2

\* Most values in the index_buffer of an Adj that is given.
MaxIndexBuffer == 3

\* Vertex indices; -1 marks an unused place.
AdjIndices == {-1, 2}

\* Mesh object indices of an AdjData: 0, 12 and 2^32 + 12.
MeshObjectIndices == {USize(0, 0), USize(0, 12), USize(1, 12)}

\* Byte offsets of an Adj entry: even and odd, inside and past the buffers.
AdjOffsets == {0, 1, 2, 4, 6, 8}

AdjDatas ==
    { AdjData(es) :
        es \in SeqsUpTo({ AdjEntryData(m, a) :
                            m \in MeshObjectIndices,
                            a \in SeqsUpTo(AdjIndices, MaxAdjacency) },
                        MaxAdjEntries) }

Adjs ==
    { Adj(es, b) :
        es \in SeqsUpTo({ AdjEntry(m, o) : m \in {0, 12}, o \in AdjOffsets },
                        MaxAdjEntries),
        b \in SeqsUpTo(AdjIndices, MaxIndexBuffer) }

InitAdj ==
    /\ kind = "Adj"
    /\ values = <<>>
    /\ compression_type = "Direct"
    /\ compensate_scale = FALSE
    /\ track_data = None
    /\ writer = <<>>
    /\ writer2 = <<>>
    /\ frame_count = 0
    /\ result = NoResult
    /\ NoSsbh
    /\ NoF32
    /\ NoTriangles
    /\ adj_result = None
    /\ \/ pc = "data" /\ adj_data \in AdjDatas /\ adj = None
       \/ pc = "adj" /\ adj \in Adjs /\ adj_data = None

\* Adj::try_from(&adj_data)
AdjFromData ==
    /\ pc = "data"
    /\ adj' = Adj_try_from(adj_data)
    /\ pc' = "data_adj"
    /\ UNCHANGED <<adj_data, adj_result>>
    /\ UNCHANGED non_adj_vars

\* AdjData::try_from(&adj) of the Adj just made.
DataFromAdjBack ==
    /\ pc = "data_adj"
    /\ adj_result' = AdjData_try_from(adj)
    /\ pc' = "data_done"
    /\ UNCHANGED <<adj_data, adj>>
    /\ UNCHANGED non_adj_vars

\* AdjData::try_from(&adj)?
DataFromAdj ==
    /\ pc = "adj"
    /\ \E r \in {AdjData_try_from(adj)} :
          IF r.ok
          THEN /\ adj_data' = r.v
               /\ adj_result' = adj_result
               /\ pc' = "adj_data"
          ELSE /\ adj_data' = adj_data
               /\ adj_result' = r
               /\ pc' = "adj_error"
    /\ UNCHANGED adj
    /\ UNCHANGED non_adj_vars

\* Adj::try_from(&adj_data) of the AdjData just made.
AdjFromDataBack ==
    /\ pc = "adj_data"
    /\ adj_result' = AdjOk(Adj_try_from(adj_data))
    /\ pc' = "adj_done"
    /\ UNCHANGED <<adj_data, adj>>
    /\ UNCHANGED non_adj_vars

NextAdj == AdjFromData \/ DataFromAdjBack \/ DataFromAdj \/ AdjFromDataBack

SpecAdj == InitAdj /\ [][NextAdj]_vars

(***************************************************************************)
(* A sequence of ssbh_write calls on one writer with one data pointer      *)
(***************************************************************************)
\* Most bytes in the writer.
MaxWritten == 4

\* The values written: integers, (), None, Some, vectors of integers (empty
\* and not), of options and of vectors.
SsbhValues ==
    { U8(1), U16(513), Unit, OptNone, OptSome(U8(2)), OptSome(OptNone),
      Vec(<<>>), Vec(<<U8(1), U8(2)>>), Vec(<<U16(513)>>),
      Vec(<<OptNone, OptSome(U8(3))>>), Vec(<<OptSome(U8(3)), OptNone>>),
      Vec(<<Vec(<<U8(1)>>), Vec(<<U8(2), U8(3)>>)>>),
      Vec(<<Vec(<<>>), Vec(<<U8(1)>>)>>), OptSome(Vec(<<>>)) }

\* The data pointer before the first call: 0 as SsbhWrite::write sets it,
\* or ahead of the writer as a caller that has reserved space leaves it.
InitialDataPtrs == {0, 3}

InitSsbhWrite ==
    /\ pc = "ssbh"
    /\ kind = "Ssbh"
    /\ values = <<>>
    /\ compression_type = "Direct"
    /\ compensate_scale = FALSE
    /\ track_data = None
    /\ writer = <<>>
    /\ writer2 = <<>>
    /\ frame_count = 0
    /\ result = NoResult
    /\ NoAdj
    /\ data_ptr \in InitialDataPtrs
    /\ NoF32
    /\ NoTriangles
    /\ value = None

\* value.ssbh_write(&mut writer, &mut data_ptr) on a Cursor over a Vec,
\* which cannot fail.
SsbhWrite ==
    /\ pc = "ssbh"
    /\ \E x \in SsbhValues :
          /\ Len(writer) + ssbh_size_in_bytes(x) <= MaxWritten
          /\ value' = x
          /\ \E w \in {ssbh_write([bytes |-> writer, data_ptr |-> data_ptr],
                                  x)} :
                /\ writer' = w.bytes
                /\ data_ptr' = w.data_ptr
    /\ UNCHANGED <<pc, kind, values, compression_type, compensate_scale,
                   track_data, frame_count, result, writer2>>
    /\ UNCHANGED <<adj_vars, f32_vars, triangle_vars>>

NextSsbhWrite == SsbhWrite

SpecSsbhWrite == InitSsbhWrite /\ [][NextSsbhWrite]_vars

(***************************************************************************)
(* Calling triangle_adjacency                                              *)
(***************************************************************************)
\* Most faces and most vertices of a mesh.
MaxFaces == 2

MaxVertices == 3

\* Faces over the vertices 0..3: windings of one triangle, a face naming a
\* vertex twice, and faces with vertex 3.
TriangleFaces ==
    {<<0, 1, 2>>, <<2, 0, 1>>, <<1, 0, 2>>, <<0, 0, 1>>, <<1, 2, 3>>,
     <<3, 2, 0>>}

\* Positions are f32 here: two values and NaN.
Positions == {FZero, FOne, FNaN}

PaddingSizes == {0, 3, 5}

InitTriangles ==
    /\ NoAdj
    /\ NoSsbh
    /\ NoF32
    /\ pc = "triangles"
    /\ kind = "Adj"
    /\ values = <<>>
    /\ compression_type = "Direct"
    /\ compensate_scale = FALSE
    /\ track_data = None
    /\ writer = <<>>
    /\ writer2 = <<>>
    /\ frame_count = 0
    /\ result = NoResult
    /\ vertex_positions \in SeqsUpTo(Positions, MaxVertices)
    /\ \E faces \in SeqsUpTo(TriangleFaces, MaxFaces),
          remainder \in {<<>>, <<1>>} :
          vertex_indices = Concat(faces) \o remainder
    /\ padding_size \in PaddingSizes
    /\ vertex_adjacency = None

\* triangle_adjacency(vertex_indices, vertex_positions, padding_size)
TriangleAdjacency ==
    /\ pc = "triangles"
    /\ vertex_adjacency' = triangle_adjacency(vertex_indices, vertex_positions,
                                              padding_size)
    /\ pc' = "adjacency"
    /\ UNCHANGED <<vertex_indices, vertex_positions, padding_size>>
    /\ UNCHANGED <<codec_vars, adj_vars, ssbh_vars, f32_vars>>

NextTriangles == TriangleAdjacency

SpecTriangles == InitTriangles /\ [][NextTriangles]_vars

(***************************************************************************)
(* Quantizing an f32 and back                                              *)
(***************************************************************************)
\* A u32 below 2^31 as halves, and back.
CompressedBits(n) == [hi |-> n \div 65536, lo |-> n % 65536]

\* The descriptors of the tests (8 bits on [0, 1], 24 bits on [-1, 1]) and
\* others with min < max: 1, 2 and 8 bits, ranges off zero, and more bits
\* than an f32 has digits.
QuantizeDescriptors ==
    { F32Compression(FZero, FOne, 8), F32Compression(FMinusOne, FOne, 24),
      F32Compression(FOne, FThree, 24), F32Compression(FMinusOne, FOne, 8),
      F32Compression(FPointFour, FOne, 2), F32Compression(FZero, FOne, 25),
      D1, D2 }

\* Grid points tried for n bits: both ends, their neighbours and the middle.
QuantizeSamples(n) ==
    { q \in {0, 1, 2, 3, 5, bit_mask(n) \div 2, (bit_mask(n) \div 2) + 1,
             bit_mask(n) - 1, bit_mask(n)} : q <= bit_mask(n) }

\* Either an end of the range is about to be compressed or a grid point is
\* about to be decompressed.
InitQuantize ==
    /\ NoAdj
    /\ NoSsbh
    /\ NoTriangles
    /\ kind = "Float"
    /\ values = <<>>
    /\ compression_type = "Compressed"
    /\ compensate_scale = FALSE
    /\ track_data = None
    /\ writer = <<>>
    /\ writer2 = <<>>
    /\ frame_count = 0
    /\ result = NoResult
    /\ descriptor \in QuantizeDescriptors
    /\ \/ /\ pc = "f32"
          /\ float \in {descriptor.min, descriptor.max}
          /\ quantized = None
       \/ /\ pc = "bits"
          /\ quantized \in { CompressedBits(q) :
                                q \in QuantizeSamples(descriptor.bit_count) }
          /\ float = None

\* decompress_f32(quantized, min, max, bit_count)
DecompressF32 ==
    /\ pc = "bits"
    /\ float' = decompress_f32(quantized.hi * 65536 + quantized.lo,
                               descriptor.min, descriptor.max,
                               descriptor.bit_count)
    /\ pc' = "decompressed"
    /\ UNCHANGED <<descriptor, quantized>>
    /\ UNCHANGED <<codec_vars, adj_vars, ssbh_vars, triangle_vars>>

\* compress_f32(float, min, max, bit_count)
CompressF32 ==
    /\ pc \in {"f32", "decompressed"}
    /\ quantized' = compress_f32(float, descriptor.min, descriptor.max,
                                 descriptor.bit_count)
    /\ pc' = (IF pc = "f32" THEN "compressed" ELSE "recompressed")
    /\ UNCHANGED <<descriptor, float>>
    /\ UNCHANGED <<codec_vars, adj_vars, ssbh_vars, triangle_vars>>

NextQuantize == DecompressF32 \/ CompressF32

SpecQuantize == InitQuantize /\ [][NextQuantize]_vars


(***************************************************************************)
(* Properties of reading compressed track data (under SpecRead)            *)
(***************************************************************************)
\* The header of the track data being read.
Header == track_data.header

\* The bit count computed from the descriptor and the header flags.
ComputedBitCount == bit_count(kind, track_data.compression, Header.flags)

\* A frame as read_track_values returns it.
ApiValue(k, v) ==
    CASE k = "Transform" -> Transform(v.scale, v.rotation, v.translation)
      [] k = "Boolean" -> v # 0
      [] OTHER -> v

C2_NullPointer ==
    pc = "done" /\ (~Header.default_data.some \/ ~Header.compressed_data.some)
        => result.status = "MalformedCompressionHeader"

\* C3 as stated: for every kind, a track whose bits_per_entry is 0 (and
\* agrees with its descriptor, with both pointers set) read with a
\* frame_count > 0 returns exactly one frame, equal to the default value.
C3_ZeroBitsOneDefaultFrame ==
    (/\ pc = "done"
     /\ Header.bits_per_entry = 0
     /\ ComputedBitCount = 0
     /\ frame_count > 0
     /\ Header.default_data.some
     /\ Header.compressed_data.some)
        => /\ result.status = "Ok"
           /\ Len(result.values) = 1
           /\ result.values[1] = ApiValue(kind, Header.default_data.v)

\* C16 as stated: a compressed Float track whose header has bits_per_entry
\* 0 and whose descriptor has min equal to max, read with a frame_count > 0,
\* gives exactly one value, the default, whatever the descriptor's bit_count
\* field holds and also when the bit stream is empty.
C16_FloatAllEqual ==
    (/\ pc = "done"
     /\ kind = "Float"
     /\ Header.bits_per_entry = 0
     /\ FEq(track_data.compression.min, track_data.compression.max)
     /\ frame_count > 0
     /\ Header.default_data.some
     /\ Header.compressed_data.some)
        => /\ result.status = "Ok"
           /\ result.values = <<Header.default_data.v>>

\* The value of bits n*(i-1) .. n*i - 1 of the bit stream being read.
FrameBits(i, n) ==
    BitsToInt(SubSeq(BytesToBits(Header.compressed_data.v),
                     n * (i - 1) + 1, n * i))

\* C19 as stated: a compressed Boolean track whose bit stream holds
\* frame_count entries of bits_per_entry bits each is decoded for every
\* bits_per_entry >= 1, entry by entry, and frame i is true iff the bits of
\* entry i are not all zero.
C19_BooleanBitsPerEntry ==
    (/\ pc = "done"
     /\ kind = "Boolean"
     /\ Header.bits_per_entry >= 1
     /\ Header.default_data.some
     /\ Header.compressed_data.some
     /\ frame_count * Header.bits_per_entry
            <= 8 * Len(Header.compressed_data.v))
        => /\ result.status = "Ok"
           /\ Len(result.values) = frame_count
           /\ \A i \in 1..frame_count :
                 result.values[i] = (FrameBits(i, Header.bits_per_entry) # 0)

\* C4 as stated: reading never panics; a bit stream shorter than the frames
\* need gives a typed error.
C4_NoPanic == pc = "done" => result.status # "Panic"

\* The sum C9 states, from the descriptor and the four low flag bits alone.
C9_Sum ==
    LET c == track_data.compression
        low == Header.flags % 16
        bc(v) == v.x.bit_count + v.y.bit_count + v.z.bit_count
    IN  bc(c.translation)
        + (CASE low % 4 = 0 -> 0
             [] low % 4 = 3 -> c.scale.x.bit_count
             [] OTHER -> bc(c.scale))
        + bc(c.rotation)
        + (IF (low \div 4) % 2 = 1 THEN 1 ELSE 0)

Written == pc \in {"written", "read", "done"}

WasRead == pc \in {"read", "done"}

\* The track data the compressed writer built.
Data == track_data.v

FAbs(x) == F32(0, x.e, x.f)

FLe(a, b) == FLt(a, b) \/ FEq(a, b)

\* The quantized f32 components of a frame and their descriptors, in step.
Components(k, v) ==
    CASE k = "Transform" ->
             <<v.scale.x, v.scale.y, v.scale.z, v.rotation.x, v.rotation.y,
               v.rotation.z, v.translation.x, v.translation.y,
               v.translation.z>>
      [] k = "UvTransform" ->
             <<v.scale_u, v.scale_v, v.rotation, v.translate_u, v.translate_v>>
      [] k = "Float" -> <<v>>
      [] k = "Vector4" -> <<v.x, v.y, v.z, v.w>>
      [] OTHER -> <<>>

Descriptors(k, c) ==
    CASE k = "Transform" ->
             <<c.scale.x, c.scale.y, c.scale.z, c.rotation.x, c.rotation.y,
               c.rotation.z, c.translation.x, c.translation.y,
               c.translation.z>>
      [] k = "UvTransform" ->
             <<c.scale_u, c.scale_v, c.rotation, c.translate_u, c.translate_v>>
      [] k = "Float" -> <<c>>
      [] k = "Vector4" -> <<c.x, c.y, c.z, c.w>>
      [] OTHER -> <<>>

\* C5: for every kind and each of Direct, Constant and ConstTransform,
\* reading the bytes TrackValues::write produced, with frame_count = len(v),
\* returns exactly v: same length, same order, every value bit-identical.
C5_UncompressedRoundTrip ==
    WasRead /\ compression_type # "Compressed" =>
        result.status = "Ok" /\ result.values = values

\* An uncompressed Float track holding NaN and -0.0 was written and read
\* back.
C5_Witness ==
    /\ pc = "read"
    /\ compression_type = "Direct"
    /\ kind = "Float"
    /\ values = <<FNaN, FMinusZero, FPointFour>>
    /\ result.values = values

\* C6 as stated: a compressed track read back has as many frames as were
\* written, every quantized component is within (max - min) / (2^bit_count
\* - 1) of its input, and a component with bit_count 0 is the default's.
C6_QuantizationError ==
    WasRead /\ compression_type = "Compressed" =>
        /\ result.status = "Ok"
        /\ Len(result.values) = Len(values)
        /\ \A i \in 1..Len(values) :
              \A j \in 1..Len(Descriptors(kind, Data.compression)) :
                 LET c == Descriptors(kind, Data.compression)[j]
                     x == Components(kind, values[i])[j]
                     y == Components(kind, result.values[i])[j]
                     d == Components(kind, Data.header.default_data.v)[j]
                 IN  IF c.bit_count = 0 THEN y = d
                     ELSE FLe(FAbs(FSub(y, x)),
                              FDiv(FSub(c.max, c.min),
                                   IntToF32(2^c.bit_count - 1)))

\* C7 as stated: reading a blob of the compressed writer and writing the
\* decoded values again with the same compensate_scale gives the same bytes.
C7_Idempotent ==
    pc = "done" /\ compression_type = "Compressed" => writer2 = writer

\* C8: a compressed Boolean track is 33 bytes and the bit buffer: the header
\* has bits_per_entry 1 and frame_count len(v), the descriptor is 16 zero
\* bytes, the default one zero byte, frame i is bit i of the buffer counting
\* from the least significant bit of each byte, the padding is zero; reading
\* it with frame_count len(v) returns v and writing that again gives the
\* same bytes.
C8_BooleanRoundTrip ==
    Written /\ kind = "Boolean" /\ compression_type = "Compressed" =>
        /\ Len(writer) = 33 + ((Len(values) + 7) \div 8)
        /\ writer[7] = 1 /\ writer[8] = 0
        /\ writer[13] + 256 * writer[14] = Len(values)
        /\ writer[15] = 0 /\ writer[16] = 0
        /\ \A i \in 17..33 : writer[i] = 0
        /\ \A i \in 1..(8 * (Len(writer) - 33)) :
              (writer[34 + ((i - 1) \div 8)] \div 2^((i - 1) % 8)) % 2
                  = (IF i <= Len(values) /\ values[i] THEN 1 ELSE 0)
        /\ WasRead => result.status = "Ok" /\ result.values = values
        /\ pc = "done" => writer2 = writer

\* A Boolean track longer than one byte of bits, with frames of both
\* values, was written, read and written again.
C8_Witness ==
    /\ pc = "done"
    /\ kind = "Boolean"
    /\ compression_type = "Compressed"
    /\ Len(values) > 8
    /\ ~values[1] /\ values[2] /\ values[9]
    /\ Len(writer) = 35

\* C10 as stated: a compressed UvTransform track with UniformScale carries
\* one scale value per frame: bits_per_entry is bc(scale_u) + bc(rotation)
\* + bc(translate_u) + bc(translate_v), the buffer holds that many bits per
\* frame, and the reader accepts it and gives scale_u = scale_v.
C10_UniformScale ==
    (/\ Written
     /\ kind = "UvTransform"
     /\ compression_type = "Compressed"
     /\ Data.header.flags % 4 = 3)
        => LET c == Data.compression
               bits == c.scale_u.bit_count + c.rotation.bit_count
                       + c.translate_u.bit_count + c.translate_v.bit_count
           IN  /\ Data.header.bits_per_entry = bits
               /\ Len(Data.header.compressed_data.v)
                      = (Len(values) * bits + 7) \div 8
               /\ WasRead =>
                      /\ result.status = "Ok"
                      /\ \A i \in 1..Len(result.values) :
                            result.values[i].scale_u = result.values[i].scale_v

(***************************************************************************)
(* Properties of the compressed writer (under Spec)                        *)
(***************************************************************************)
\* A compressed track was written.
WroteCompressed == Written /\ compression_type = "Compressed"

\* The descriptor found in the written bytes after the header.
WrittenCompression == compression_at(kind, writer, HeaderSize)

\* The header fields found in the written bytes.
WrittenFlags == u16_at(writer, 2)

WrittenDefaultPtr == u16_at(writer, 4)

WrittenBitsPerEntry == u16_at(writer, 6)

WrittenCompressedPtr == u32_at(writer, 8)

WrittenFrameCount == u32_at(writer, 12)

\* The default value found in the written bytes at default_data_ptr.
WrittenDefault == value_at(kind, writer, WrittenDefaultPtr)

\* C11: for every kind and every frame sequence of length N the compressed
\* writer succeeds and its bytes are header, descriptor, default value and
\* bit stream in this order, with unk_4 = 4, frame_count = N,
\* bits_per_entry = the bit count of the descriptor under the flags,
\* default_data_ptr = 16 + size of the descriptor and
\* compressed_data_ptr = default_data_ptr + size of the default value; the
\* bit stream is the rest of the bytes, N * bits_per_entry bits rounded up
\* to whole bytes.
C11_Layout ==
    /\ pc # "panic"
    /\ WroteCompressed =>
           /\ u16_at(writer, 0) = 4
           /\ WrittenFrameCount = Len(values)
           /\ WrittenBitsPerEntry
                  = bit_count(kind, WrittenCompression, WrittenFlags)
           /\ WrittenDefaultPtr = HeaderSize + compression_size(kind)
           /\ WrittenCompressedPtr = WrittenDefaultPtr + size_in_bytes(kind)
           /\ SubSeq(writer, HeaderSize + 1, WrittenDefaultPtr)
                  = compression_le(kind, Data.compression)
           /\ SubSeq(writer, WrittenDefaultPtr + 1, WrittenCompressedPtr)
                  = value_le(kind, Data.header.default_data.v)
           /\ SubSeq(writer, WrittenCompressedPtr + 1, Len(writer))
                  = Data.header.compressed_data.v
           /\ Len(writer) = WrittenCompressedPtr
                  + ((Len(values) * WrittenBitsPerEntry + 7) \div 8)

\* Two Vector4 frames that differ in every component were written
\* compressed: 96 bits per frame behind a 64 byte descriptor and a 16 byte
\* default value (write_compressed_vector4_multiple_frames).
C11_Witness ==
    /\ WroteCompressed
    /\ kind = "Vector4"
    /\ Len(values) = 2
    /\ WrittenBitsPerEntry = 96
    /\ WrittenDefaultPtr = 80
    /\ WrittenCompressedPtr = 96
    /\ Len(writer) = 120

\* Every frame of the track has one scale: x == y == z for a Transform,
\* scale_u == scale_v for a UvTransform.
AllFramesUniform ==
    \A i \in 1..Len(values) :
        IF kind = "Transform"
        THEN /\ FEq(values[i].scale.x, values[i].scale.y)
             /\ FEq(values[i].scale.y, values[i].scale.z)
        ELSE FEq(values[i].scale_u, values[i].scale_v)

ComponentValues(j) ==
    [i \in 1..Len(values) |-> Components(kind, values[i])[j]]

\* m is the least of xs: a value of xs no other value of xs is below (NaN
\* when xs holds nothing else).
IsMinimumOf(m, xs) ==
    IF \A i \in 1..Len(xs) : IsNaN(xs[i]) THEN IsNaN(m)
    ELSE /\ \E i \in 1..Len(xs) : FEq(xs[i], m)
         /\ \A i \in 1..Len(xs) : IsNaN(xs[i]) \/ FLe(m, xs[i])

IsMaximumOf(m, xs) ==
    IF \A i \in 1..Len(xs) : IsNaN(xs[i]) THEN IsNaN(m)
    ELSE /\ \E i \in 1..Len(xs) : FEq(xs[i], m)
         /\ \A i \in 1..Len(xs) : IsNaN(xs[i]) \/ FLe(xs[i], m)

\* The f32 descriptor c is the range of xs.
IsRangeOf(c, xs) ==
    /\ IsMinimumOf(c.min, xs)
    /\ IsMaximumOf(c.max, xs)
    /\ c.bit_count = (IF FEq(c.min, c.max) THEN 0 ELSE 24)

\* The u32 descriptor c is the range of xs.
IsIndexRangeOf(c, xs) ==
    /\ \E i \in 1..Len(xs) : xs[i] = c.min
    /\ \A i \in 1..Len(xs) : c.min <= xs[i]
    /\ \E i \in 1..Len(xs) : xs[i] = c.max
    /\ \A i \in 1..Len(xs) : xs[i] <= c.max
    /\ c.bit_count = (IF c.min = c.max THEN 0 ELSE 24)

\* C14 as stated: for Transform, UvTransform, Float, Vector4 and
\* PatternIndex the descriptor the compressed writer stores has, per
\* component, min the least and max the greatest value over all frames,
\* bit_count 24 when min differs from max and 0 when they are equal; a
\* single component with min equal to max takes no bits per frame.
C14_RangeDescriptors ==
    WroteCompressed /\ values # <<>> =>
        /\ \A j \in 1..Len(Descriptors(kind, WrittenCompression)) :
              IsRangeOf(Descriptors(kind, WrittenCompression)[j],
                        ComponentValues(j))
        /\ kind = "PatternIndex" =>
              /\ IsIndexRangeOf(WrittenCompression, values)
              /\ WrittenCompression.min = WrittenCompression.max =>
                     WrittenBitsPerEntry = 0
        /\ kind = "Float" /\ FEq(WrittenCompression.min, WrittenCompression.max) =>
              WrittenBitsPerEntry = 0

\* C15 as stated: the default value the compressed writer stores is, per
\* component, the least value of that component over all frames, for
\* Transform (rotation w included), UvTransform, Float, PatternIndex and
\* Vector4; compensate_scale of the Transform default is the input flag.
C15_DefaultIsMinimum ==
    WroteCompressed /\ values # <<>> =>
        /\ \A j \in 1..Len(Components(kind, WrittenDefault)) :
              IsMinimumOf(Components(kind, WrittenDefault)[j],
                          ComponentValues(j))
        /\ kind = "Transform" =>
              /\ IsMinimumOf(WrittenDefault.rotation.w,
                             [i \in 1..Len(values) |-> values[i].rotation.w])
              /\ WrittenDefault.compensate_scale
                     = (IF compensate_scale THEN 1 ELSE 0)
        /\ kind = "PatternIndex" =>
              /\ \E i \in 1..Len(values) : values[i] = WrittenDefault
              /\ \A i \in 1..Len(values) : WrittenDefault <= values[i]

\* C18: for every kind, writing no frames as Compressed succeeds; the bytes
\* are a header with frame_count 0, the descriptor and the default value,
\* with no byte of bit stream behind them, and reading them with frame_count
\* 0 gives the empty sequence without error.
C18_EmptySequence ==
    compression_type = "Compressed" /\ values = <<>> /\ pc # "start" =>
        /\ Written
        /\ WrittenFrameCount = 0
        /\ WrittenDefaultPtr = HeaderSize + compression_size(kind)
        /\ WrittenCompressedPtr = WrittenDefaultPtr + size_in_bytes(kind)
        /\ Len(writer) = WrittenCompressedPtr
        /\ WasRead => result.status = "Ok" /\ result.values = <<>>

\* An empty Transform track was written compressed and read back: 16 bytes
\* of header, 144 of descriptor, 44 of default value and nothing else.
C18_Witness ==
    /\ WasRead
    /\ compression_type = "Compressed"
    /\ kind = "Transform"
    /\ values = <<>>
    /\ Len(writer) = 204
    /\ result.status = "Ok"
    /\ result.values = <<>>

(***************************************************************************)
(* Properties of compressing with given flags and descriptors (under       *)
(* SpecCompress)                                                           *)
(***************************************************************************)
\* The first frame given to the compressor, its descriptor, default value
\* and flags.
FirstFrame == WireValues(kind, values, compensate_scale)[1]

\* The bits the f32 fields vs take with the descriptors cs, written on
\* their own.
GroupBits(vs, cs) == compress_fields(BitWriter(3 * 32), vs, cs, 1).out

\* The four parts of a Transform frame as C13 states them.
StatedScaleBits ==
    IF scale_type(Header.flags) = UniformScale
    THEN GroupBits(<<FirstFrame.scale.x>>, <<track_data.compression.scale.x>>)
    ELSE IF scale_type(Header.flags) = ScaleNone THEN <<>>
    ELSE GroupBits(<<FirstFrame.scale.x, FirstFrame.scale.y,
                     FirstFrame.scale.z>>,
                   <<track_data.compression.scale.x,
                     track_data.compression.scale.y,
                     track_data.compression.scale.z>>)

StatedRotationBits ==
    IF has_rotation(Header.flags)
    THEN GroupBits(<<FirstFrame.rotation.x, FirstFrame.rotation.y,
                     FirstFrame.rotation.z>>,
                   <<track_data.compression.rotation.x,
                     track_data.compression.rotation.y,
                     track_data.compression.rotation.z>>)
    ELSE <<>>

StatedTranslationBits ==
    IF has_translation(Header.flags)
    THEN GroupBits(<<FirstFrame.translation.x, FirstFrame.translation.y,
                     FirstFrame.translation.z>>,
                   <<track_data.compression.translation.x,
                     track_data.compression.translation.y,
                     track_data.compression.translation.z>>)
    ELSE <<>>

StatedSignBits ==
    IF has_rotation(Header.flags)
    THEN <<IF FLt(FirstFrame.rotation.w, FZero) THEN 1 ELSE 0>>
    ELSE <<>>

StatedFrameBits ==
    StatedScaleBits \o StatedRotationBits \o StatedTranslationBits
    \o StatedSignBits

\* What a reader that takes the four parts under the same conditions
\* returns for the first frame: a part that is absent keeps its default.
StatedScale ==
    IF scale_type(Header.flags) = UniformScale
    THEN Vector3_from(decompress_fields(StatedScaleBits, 0,
                          <<track_data.compression.scale.x>>,
                          <<Header.default_data.v.scale.x>>, <<>>),
                      <<1, 1, 1>>).v
    ELSE IF scale_type(Header.flags) = ScaleNone
         THEN Header.default_data.v.scale
    ELSE Vector3_decompress(StatedScaleBits, 0, track_data.compression.scale,
                            Header.default_data.v.scale).v

StatedRotationXyz ==
    IF has_rotation(Header.flags)
    THEN Vector3_decompress(StatedRotationBits, 0,
                            track_data.compression.rotation,
                            xyz(Header.default_data.v.rotation)).v
    ELSE xyz(Header.default_data.v.rotation)

StatedTranslation ==
    IF has_translation(Header.flags)
    THEN Vector3_decompress(StatedTranslationBits, 0,
                            track_data.compression.translation,
                            Header.default_data.v.translation).v
    ELSE Header.default_data.v.translation

StatedRotationW ==
    IF has_rotation(Header.flags)
    THEN calculate_rotation_w(StatedSignBits, 0, StatedRotationXyz).v
    ELSE Header.default_data.v.rotation.w

StatedFrame ==
    UncompressedTransform(
        StatedScale,
        Vector4(StatedRotationXyz.x, StatedRotationXyz.y, StatedRotationXyz.z,
                StatedRotationW),
        StatedTranslation, Header.default_data.v.compensate_scale)

\* The read r succeeded with value v and left the bit index at pos.
ReadGave(r, v, pos) == r.st = "Ok" /\ r.pos = pos /\ r.v = v

\* C13 as stated: for every flags value the bits written for a Transform
\* frame are the scale part (none for None, x for UniformScale, x y z
\* otherwise), rotation x y z only with has_rotation, translation only with
\* has_translation, then one sign bit only with has_rotation, 1 iff w < 0;
\* and the reader takes the same parts in the same order under the same
\* conditions: it ends the frame where the writer ended it and returns the
\* values of those parts, the default for an absent part.
C13_FieldOrder ==
    pc = "done" /\ kind = "Transform" =>
        /\ Transform_compress(BitWriter(Len(StatedFrameBits)), FirstFrame,
                              track_data.compression, Header.flags)
               = [out |-> StatedFrameBits, cap |-> Len(StatedFrameBits),
                  ok |-> TRUE]
        /\ ReadGave(read_transform_compressed(
                        BytesToBits(Header.compressed_data.v), 0,
                        track_data.compression, Header.default_data.v,
                        Header.flags),
                    StatedFrame, Len(StatedFrameBits))


\* The fields of frame v that compress encodes under the flags, each with
\* its descriptor.
Pairs3(v, c) == <<<<v.x, c.x>>, <<v.y, c.y>>, <<v.z, c.z>>>>

EncodedFields(k, v, c, flags) ==
    CASE k = "Transform" ->
             (IF scale_type(flags) = UniformScale
              THEN <<<<v.scale.x, c.scale.x>>>>
              ELSE IF scale_type(flags) \in {Scale, ScaleNoInheritance}
                   THEN Pairs3(v.scale, c.scale)
              ELSE <<>>)
             \o (IF has_rotation(flags)
                 THEN Pairs3(v.rotation, c.rotation) ELSE <<>>)
             \o (IF has_translation(flags)
                 THEN Pairs3(v.translation, c.translation) ELSE <<>>)
      [] OTHER -> <<<<v, c>>>>

\* min <= v <= max for the value and the descriptor of the pair p.
InRange(k, p) ==
    IF k = "PatternIndex" THEN p[2].min <= p[1] /\ p[1] <= p[2].max
    ELSE FLe(p[2].min, p[1]) /\ FLe(p[1], p[2].max)

\* Some encoded field of some frame breaks a precondition of the writer.
PreconditionBroken ==
    \E i \in 1..Len(values) :
       \E j \in 1..Len(EncodedFields(kind, values[i], track_data.compression,
                                     Header.flags)) :
          \/ ~InRange(kind, EncodedFields(kind, values[i],
                                          track_data.compression,
                                          Header.flags)[j])
          \/ EncodedFields(kind, values[i], track_data.compression,
                           Header.flags)[j][2].bit_count > 32

\* C17 as stated: compressing a value outside [min, max] of its descriptor,
\* or with a descriptor whose bit_count exceeds 32, fails and leaves no
\* output; no clamped or truncated bit field is written.
C17_WriterValidates ==
    pc # "start" /\ PreconditionBroken => pc = "panic" /\ writer = <<>>

\* The bit writer after the first k frames of the track, in the buffer
\* create_compressed_buffer sizes for all of them.
WriterAfter(k) ==
    CompressAll(kind,
                BitWriter(Len(values)
                          * bit_count(kind, track_data.compression,
                                      Header.flags)),
                SubSeq(WireValues(kind, values, compensate_scale), 1, k),
                1, track_data.compression, Header.flags)

\* C28 as stated: for every kind, descriptor and flags value, compressing
\* one frame advances the bit index by exactly bit_count(flags) of the
\* descriptor: after k frames the index is k times that, and no write
\* indexes at or past the len(values) * bit_count(flags) bits of the buffer.
C28_WriterBitAccounting ==
    pc # "start" =>
        \A k \in 0..Len(values) :
           /\ WriterAfter(k).ok
           /\ Len(WriterAfter(k).out)
                  = k * bit_count(kind, track_data.compression, Header.flags)


(***************************************************************************)
(* Properties of the adjacency conversions (under SpecAdj)                 *)
(***************************************************************************)
\* The number of values in the entries of es before entry i.
ValuesBefore(es, i) == Len(FlatMapAdjacency(SubSeq(es, 1, i - 1), 1))

\* The Adj made from adj_data is as stated: the index buffer is the
\* adjacency of all entries in order, entry i starts at twice the number of
\* values before it.
AdjAsStated ==
    /\ adj.index_buffer = FlatMapAdjacency(adj_data.entries, 1)
    /\ Len(adj.entries) = Len(adj_data.entries)
    /\ \A i \in 1..Len(adj.entries) :
          adj.entries[i].index_buffer_offset
              = 2 * ValuesBefore(adj_data.entries, i)

\* The offsets of the Adj start at 0 and are non-decreasing, even and
\* within the buffer.
OffsetsInOrder ==
    /\ adj.entries # <<>> => adj.entries[1].index_buffer_offset = 0
    /\ \A i \in 1..Len(adj.entries) :
          /\ adj.entries[i].index_buffer_offset % 2 = 0
          /\ adj.entries[i].index_buffer_offset
                 <= SizeOfI16 * Len(adj.index_buffer)
          /\ i > 1 => adj.entries[i - 1].index_buffer_offset
                          <= adj.entries[i].index_buffer_offset

\* C20 as stated: every AdjData converted to an Adj and back is the same
\* AdjData, the Adj being as stated; every Adj whose offsets start at 0 and
\* are non-decreasing, even and within the buffer, converted to an AdjData
\* and back, is the same Adj.
C20_Original ==
    /\ pc \in {"data_adj", "data_done"} => AdjAsStated
    /\ pc = "data_done" => adj_result = AdjOk(adj_data)
    /\ pc \in {"adj_data", "adj_error", "adj_done"} /\ OffsetsInOrder =>
          pc # "adj_error"
    /\ pc = "adj_done" /\ OffsetsInOrder => adj_result = AdjOk(adj)

\* Every mesh_object_index of adj_data fits in 32 bits.
IndicesFitU32 ==
    \A i \in 1..Len(adj_data.entries) :
       adj_data.entries[i].mesh_object_index.hi = 0

\* C20 amended: an AdjData whose mesh object indices are below 2^32 (and
\* whose adjacency data is below 2^32 bytes, as every sequence here is)
\* converted to an Adj and back is the same AdjData, the Adj being as
\* stated; an Adj that has an entry or an empty index buffer, and whose
\* offsets start at 0 and are non-decreasing, even and within the buffer,
\* converted to an AdjData and back, is the same Adj.
C20_RoundTrip ==
    /\ pc \in {"data_adj", "data_done"} => AdjAsStated
    /\ pc = "data_done" /\ IndicesFitU32 => adj_result = AdjOk(adj_data)
    /\ (/\ pc \in {"adj_data", "adj_error", "adj_done"}
        /\ OffsetsInOrder
        /\ adj.entries # <<>> \/ adj.index_buffer = <<>>)
          => /\ pc # "adj_error"
             /\ pc = "adj_done" => adj_result = AdjOk(adj)

\* An Adj of two entries, the second starting at byte 2 of a buffer of
\* three values, was converted to an AdjData and back.
C20_Witness ==
    /\ pc = "adj_done"
    /\ Len(adj.entries) = 2
    /\ adj.entries[1].index_buffer_offset = 0
    /\ adj.entries[2].index_buffer_offset = 2
    /\ adj.entries[2].mesh_object_index = 12
    /\ adj.index_buffer = <<2, -1, 2>>
    /\ adj_data.entries[2].vertex_adjacency = <<-1, 2>>
    /\ adj_result = AdjOk(adj)


\* The element range of entry i of the Adj: from its offset to the next
\* entry's offset, or to the end of the buffer for the last entry, in
\* values of two bytes.
RangeStart(i) == adj.entries[i].index_buffer_offset \div 2

RangeEnd(i) ==
    IF i < Len(adj.entries)
    THEN adj.entries[i + 1].index_buffer_offset \div 2
    ELSE Len(adj.index_buffer)

RangeValid(i) ==
    RangeStart(i) <= RangeEnd(i) /\ RangeEnd(i) <= Len(adj.index_buffer)

\* The byte offset the error reports as the end of entry i.
RangeEndBytes(i) ==
    IF i < Len(adj.entries)
    THEN adj.entries[i + 1].index_buffer_offset
    ELSE 2 * Len(adj.index_buffer)

\* C21: AdjData::try_from(&Adj) gives BufferOffsetOutOfRange, with the byte
\* offsets of the first entry whose element range is reversed or passes the
\* end of index_buffer and buffer_size twice the length of index_buffer, and
\* no AdjData; when every range is valid it succeeds.
C21_OffsetOutOfRange ==
    pc \in {"adj_data", "adj_error", "adj_done"} =>
        IF \A i \in 1..Len(adj.entries) : RangeValid(i)
        THEN pc # "adj_error" /\ Len(adj_data.entries) = Len(adj.entries)
        ELSE /\ pc = "adj_error"
             /\ adj_data = None
             /\ ~adj_result.ok
             /\ adj_result.error = "BufferOffsetOutOfRange"
             /\ adj_result.buffer_size = 2 * Len(adj.index_buffer)
             /\ \E i \in 1..Len(adj.entries) :
                   /\ ~RangeValid(i)
                   /\ \A j \in 1..(i - 1) : RangeValid(j)
                   /\ adj_result.start = adj.entries[i].index_buffer_offset
                   /\ adj_result.end = RangeEndBytes(i)

\* An Adj whose first entry starts behind the second was refused: offsets 4
\* and 2 over a buffer of three values.
C21_Witness ==
    /\ pc = "adj_error"
    /\ Len(adj.entries) = 2
    /\ Len(adj.index_buffer) = 3
    /\ adj_result = BufferOffsetOutOfRange(4, 2, 6)


(***************************************************************************)
(* Properties of the data pointer (under SpecSsbhWrite)                    *)
(***************************************************************************)
\* The values that hold nothing: an empty Vec, None and ().
Empties == {Vec(<<>>), OptNone, Unit}

\* C22 as stated: over any sequence of ssbh_write calls sharing one data
\* pointer, the pointer never decreases and after every call it is at least
\* the writer's stream position; writing an empty Vec, None or () writes no
\* bytes and leaves the pointer unchanged.
C22_Original ==
    [][/\ data_ptr' >= data_ptr
       /\ data_ptr' >= Len(writer')
       /\ value' \in Empties => writer' = writer /\ data_ptr' = data_ptr]_vars

\* C22 amended: the pointer never decreases; after writing a Vec or a Some
\* it is at least the stream position; an integer is written without
\* touching the pointer, which may stay behind the stream position; None
\* and () write no bytes and leave the pointer unchanged; an empty Vec
\* writes no bytes and raises the pointer to the stream position when it
\* was behind it.
C22_DataPointer ==
    [][/\ data_ptr' >= data_ptr
       /\ value'.ty \in {"vec", "some"} => data_ptr' >= Len(writer')
       /\ value'.ty \in {"u8", "u16"} =>
             /\ data_ptr' = data_ptr
             /\ Len(writer') = Len(writer) + ssbh_size_in_bytes(value')
       /\ value' \in {OptNone, Unit} =>
             writer' = writer /\ data_ptr' = data_ptr
       /\ value' = Vec(<<>>) =>
             /\ writer' = writer
             /\ data_ptr' = (IF data_ptr < Len(writer) THEN Len(writer)
                             ELSE data_ptr)]_vars

\* An empty Vec was written behind one byte that had left the pointer at 0:
\* the pointer is now 1.
C22_Witness ==
    /\ pc = "ssbh"
    /\ value = Vec(<<>>)
    /\ writer = <<1>>
    /\ data_ptr = 1


(***************************************************************************)
(* Properties of the rotation of a compressed Transform (under SpecRead)   *)
(***************************************************************************)
\* The bits the reader takes from the stream for a component.
BitsTaken(d) == IF d.bit_count = 0 \/ FEq(d.min, d.max) THEN 0 ELSE d.bit_count

Vector3BitsTaken(c) == BitsTaken(c.x) + BitsTaken(c.y) + BitsTaken(c.z)

ScaleBitsTaken ==
    IF scale_type(Header.flags) = UniformScale
    THEN BitsTaken(track_data.compression.scale.x)
    ELSE Vector3BitsTaken(track_data.compression.scale)

\* Scale, rotation x y z and translation of one frame.
FieldBitsTaken ==
    ScaleBitsTaken + Vector3BitsTaken(track_data.compression.rotation)
    + Vector3BitsTaken(track_data.compression.translation)

\* One frame, with its sign bit when has_rotation is set.
FrameBitsTaken ==
    FieldBitsTaken + (IF has_rotation(Header.flags) THEN 1 ELSE 0)

\* The sign bit of frame i: the bit after its translation.
SignBit(i) ==
    BytesToBits(Header.compressed_data.v)[(i - 1) * FrameBitsTaken
                                          + FieldBitsTaken + 1]

\* Rotation x y z of frame i, read where the frames before it ended.
RotationXyzAt(i) ==
    Vector3_decompress(BytesToBits(Header.compressed_data.v),
                       (i - 1) * FrameBitsTaken + ScaleBitsTaken,
                       track_data.compression.rotation,
                       xyz(Header.default_data.v.rotation)).v

SumOfSquares(r) ==
    FAdd(FAdd(FMul(r.x, r.x), FMul(r.y, r.y)), FMul(r.z, r.z))

\* 0 when 1 - (x^2 + y^2 + z^2) is negative, its square root otherwise.
StatedW(w2) == IF FLt(w2, FZero) THEN FZero ELSE FSqrt(w2)

\* w of the rotation r of frame i as stated.
RotationWAsStated(i, r) ==
    /\ xyz(r) = RotationXyzAt(i)
    /\ IF has_rotation(Header.flags)
       THEN r.w = (IF SignBit(i) = 1
                   THEN FNeg(StatedW(FSub(FOne, SumOfSquares(r))))
                   ELSE StatedW(FSub(FOne, SumOfSquares(r))))
       ELSE r.w = Header.default_data.v.rotation.w

TransformWasRead == pc = "done" /\ kind = "Transform" /\ result.status = "Ok"

PassesBitCountCheck ==
    /\ Header.bits_per_entry
           = bit_count(kind, track_data.compression, Header.flags)
    /\ Header.default_data.some
    /\ Header.compressed_data.some

\* Frame k (from 0) decompressed at bit k * bits_per_entry.
FrameAt(k) ==
    decompress(kind, BytesToBits(Header.compressed_data.v),
               k * Header.bits_per_entry, track_data.compression,
               Header.default_data.v, Header)

\* The frames whose bits [k * B, (k + 1) * B) lie within the bit stream.
FramesWithin ==
    { k \in 0..(8 * Len(Header.compressed_data.v)) :
         /\ k < frame_count
         /\ (k + 1) * Header.bits_per_entry
                <= 8 * Len(Header.compressed_data.v) }

\* C29 as stated: for a blob that passes the bits_per_entry check, decoding
\* a frame advances the read cursor by exactly bits_per_entry bits, so frame
\* k is decoded from bits [k * B, (k + 1) * B); a component with min == max
\* and a nonzero bit_count does not shift what follows it.
C29_ReaderBitAccounting ==
    pc = "done" /\ PassesBitCountCheck =>
        \A k \in FramesWithin :
           /\ FrameAt(k).st = "Ok"
           /\ FrameAt(k).pos = (k + 1) * Header.bits_per_entry
           /\ result.status = "Ok" /\ k < Len(result.values)
                  => result.values[k + 1]
                         = TrackValues_from(kind,
                               [status |-> "Ok", values |-> <<FrameAt(k).v>>],
                               FALSE).values[1]


(***************************************************************************)
(* Properties of compressed PatternIndex tracks (under Spec)               *)
(***************************************************************************)
\* The bit stream found in the written bytes at compressed_data_ptr.
WrittenBits ==
    BytesToBits(SubSeq(writer, WrittenCompressedPtr + 1, Len(writer)))

\* The value of the n bits of frame i of the written bit stream.
WrittenFrame(i, n) == BitsToInt(SubSeq(WrittenBits, n * (i - 1) + 1, n * i))

\* C24 as stated: for every sequence of u32 values the compressed writer
\* stores frame i as values[i] - min in bit_count bits, without truncation,
\* and reading the bytes with frame_count = len(values) returns the values.
C24_PatternIndexRoundTrip ==
    WroteCompressed /\ kind = "PatternIndex" =>
        /\ \A i \in 1..Len(values) :
              WrittenFrame(i, WrittenCompression.bit_count)
                  = values[i] - WrittenCompression.min
        /\ WasRead => result.status = "Ok" /\ result.values = values


(***************************************************************************)
(* Properties of the written bit stream (under Spec)                       *)
(***************************************************************************)
\* The bits frame i takes when it is compressed on its own into n bits.
FrameAlone(i, n) ==
    compress(kind, BitWriter(n), WireValues(kind, values, compensate_scale)[i],
             WrittenCompression, WrittenFlags).out

\* C25: the bit stream of N frames with B = bits_per_entry is
\* ceil(N * B / 8) bytes, frame k (from 0) is bits k * B .. (k + 1) * B - 1
\* counted from the least significant bit of each byte, and the bits after
\* bit N * B are zero.
C25_BitStream ==
    WroteCompressed =>
        /\ Len(writer) - WrittenCompressedPtr
               = (Len(values) * WrittenBitsPerEntry + 7) \div 8
        /\ \A i \in 1..Len(values) :
              SubSeq(WrittenBits, WrittenBitsPerEntry * (i - 1) + 1,
                     WrittenBitsPerEntry * i)
                  = FrameAlone(i, WrittenBitsPerEntry)
        /\ \A j \in (Len(values) * WrittenBitsPerEntry + 1)..Len(WrittenBits) :
              WrittenBits[j] = 0

\* Three Transform frames whose bits_per_entry is not a multiple of 8 and
\* whose third frame ends in a set bit: the last byte holds bits of that
\* frame and padding.
C25_Witness ==
    /\ WroteCompressed
    /\ kind = "Transform"
    /\ Len(values) = 3
    /\ WrittenBitsPerEntry % 8 # 0
    /\ FrameAlone(3, WrittenBitsPerEntry)[WrittenBitsPerEntry] = 1


(***************************************************************************)
(* Properties of the compensate_scale flag (under Spec)                    *)
(***************************************************************************)
ReadGaveValues == WasRead /\ result.status = "Ok"

\* C30 as stated: for every compression type and every frame sequence, the
\* empty one included, reading the bytes written for a Transform track with
\* the flag c returns c; for every other kind the returned flag is false.
C30_Original ==
    ReadGaveValues =>
        result.compensate_scale = (kind = "Transform" /\ compensate_scale)

\* C30, amended: the flag of a Transform track comes back from the default
\* block of a compressed track, empty or not, and from the first frame of an
\* uncompressed track; an empty uncompressed track has no frame to carry it
\* and gives false. Every other kind gives false.
C30_CompensateScale ==
    ReadGaveValues =>
        result.compensate_scale
            = (/\ kind = "Transform"
               /\ compensate_scale
               /\ (compression_type = "Compressed" \/ values # <<>>))

\* An empty compressed Transform track written with the flag set was read,
\* and the flag came back.
C30_Witness ==
    /\ ReadGaveValues
    /\ kind = "Transform"
    /\ compression_type = "Compressed"
    /\ values = <<>>
    /\ compensate_scale
    /\ result.compensate_scale


(***************************************************************************)
(* Properties of quantization (under SpecQuantize)                         *)
(***************************************************************************)
\* C26 as stated: for min < max and n >= 1 bits, compress_f32(min) = 0,
\* compress_f32(max) = 2^n - 1, decompress_f32(0) = min,
\* decompress_f32(2^n - 1) = max, and compressing a decompressed grid point
\* q gives q again.
C26_GridPoints ==
    [][/\ pc = "f32" =>
             /\ float = descriptor.min => quantized' = CompressedBits(0)
             /\ float = descriptor.max =>
                    quantized' = CompressedBits(bit_mask(descriptor.bit_count))
       /\ pc = "bits" =>
             /\ quantized = CompressedBits(0) => float' = descriptor.min
             /\ quantized = CompressedBits(bit_mask(descriptor.bit_count)) =>
                    float' = descriptor.max
       /\ pc = "decompressed" => quantized' = quantized]_vars


(***************************************************************************)
(* Properties of triangle_adjacency (under SpecTriangles)                  *)
(***************************************************************************)
\* The two other vertices of each corner of the face that is vertex v.
OthersOf(face, v) ==
    Concat([c \in 1..3 |->
               IF face[c] = v
               THEN <<face[(c % 3) + 1], face[((c + 1) % 3) + 1]>>
               ELSE <<>>])

\* The other vertices of the triangles containing vertex v, in face order.
AdjacentTo(v) ==
    Concat([k \in 1..(Len(vertex_indices) \div 3) |->
               OthersOf(SubSeq(vertex_indices, 3 * k - 2, 3 * k), v)])

\* Vertex i itself and the vertices at its position.
SamePosition(i, j) ==
    j = i \/ FEq(vertex_positions[j], vertex_positions[i])

\* The slot of vertex i as stated, before truncation and padding.
StatedSlot(i) ==
    Concat([j \in 1..Len(vertex_positions) |->
               IF SamePosition(i, j) THEN AdjacentTo(j - 1) ELSE <<>>])

\* The slot of vertex i in what was returned.
Slot(i) ==
    SubSeq(vertex_adjacency.v, padding_size * (i - 1) + 1, padding_size * i)

\* C27 as stated: triangle_adjacency returns vertex_positions.len() x
\* padding_size entries; the slot of vertex i holds, for every vertex j at
\* the position of i in increasing j, i included, the two other vertices
\* of each triangle containing j in face order, truncated or padded with
\* -1 to padding_size; vertices with equal positions get identical slots.
C27_TriangleAdjacency ==
    pc = "adjacency" =>
        /\ vertex_adjacency.ok
        /\ Len(vertex_adjacency.v) = Len(vertex_positions) * padding_size
        /\ \A i \in 1..Len(vertex_positions) :
              Slot(i) = resize(StatedSlot(i), padding_size, -1)
        /\ \A i, j \in 1..Len(vertex_positions) :
              FEq(vertex_positions[i], vertex_positions[j]) => Slot(i) = Slot(j)

====
